---- MODULE Spec2Model ----
(***************************************************************************)
(* A model of the statistical core of the SCZ AlphaGenome pipeline:        *)
(*   - scripts/02_finemapping/build_credible_sets.py                       *)
(*       (locus clustering, proxy posterior probabilities, credible sets)  *)
(*   - scripts/01_data_preparation/normalize_posterior_probs.py            *)
(*       (renormalisation of provided posterior probabilities)             *)
(*   - scripts/04_variant_to_gene/compute_gene_scores.py                   *)
(*       (PP-weighted gene score aggregation)                              *)
(*   - scripts/05_null_model/compute_empirical_zscores.py                  *)
(*       (empirical null calibration: z-scores, ranks, p-values)           *)
(*   - scripts/03_alphagenome_scoring/run_alphagenome.py                   *)
(*       (the scoring run with its checkpoint file)                        *)
(*                                                                         *)
(* Every script is a batch function of its input table.  Each one is a     *)
(* small state machine: Init draws the input table from bounded sets and   *)
(* the actions are the statements of the function, one action per loop     *)
(* iteration or per table-wide pandas statement.                           *)
(***************************************************************************)
EXTENDS Integers, Sequences, FiniteSets

VARIABLES
    pc,             \* position of the running script
    \* ---- build_credible_sets.py : create_proxy_credible_sets ----
    df,             \* the GWAS table handed to create_proxy_credible_sets
    df_columns,     \* the names of the columns of that table
    proxy_file,     \* the file scz_credible_sets_proxy.csv written by main
    sig,            \* the working table `sig`
    locus_ids,      \* the list locus_ids
    current_locus,  \* current_locus
    last_chr,       \* last_chr
    last_bp,        \* last_bp
    credible_sets,  \* the returned table
    \* ---- normalize_posterior_probs.py : normalize_posterior_probabilities ----
    norm_df,        \* the table df read from input_file
    norm_warning,   \* whether the warning of line 83 was printed
    norm_out,       \* the table written to output_file
    \* ---- compute_gene_scores.py : aggregate_scores ----
    scores_file,        \* the rows of the file scores_file
    pp_column,          \* whether scores_file has a column Proxy_PP
    meta_file,          \* the file scz_credible_sets_proxy.csv
    agg_df,             \* the table df
    agg_i,              \* rows the aggregation loop has passed
    gene_weighted_sums, \* the dict gene_weighted_sums
    gene_max_scores,    \* the dict gene_max_scores
    res_df,             \* the returned table
    \* ---- compute_empirical_zscores.py : calculate_empirical_stats ----
    weighted_scores_file,   \* the file weighted_scores_file
    universe_file,          \* the file universe_file
    score_map,          \* the dict score_map
    uni_genes,          \* the set all_genes
    full_df,            \* the table df
    mu,                 \* mu
    sigma,              \* sigma
    output_df,          \* the returned table output_df
    \* ---- run_alphagenome.py : score_variants_with_alphagenome ----
    variants,           \* the SNP ids of the rows of variants_df
    output_file,        \* the checkpoint file alphagenome_variant_scores.csv
    existing,           \* the checkpoint file as the run found it
    seen_snps,          \* the set seen_snps
    temp_results,       \* the list temp_results
    run_i,              \* rows of variants_df the scoring loop has passed
    calls,              \* per row, the outcomes of the calls of client.score_variant
    runs,               \* how many times the script was started
    \* ---- fix_schema.py : main ----
    in_file,            \* the file IN_FILE: its lines, each a list of fields
    backup_file,        \* the file BACKUP_FILE
    fix_first,          \* the canonical file the first repair wrote
    fix_runs            \* how many times the repair was started

csVars == <<df, df_columns, proxy_file, sig, locus_ids, current_locus, last_chr, last_bp, credible_sets>>
normVars == <<norm_df, norm_warning, norm_out>>
aggVars == <<scores_file, pp_column, meta_file, agg_df, agg_i, gene_weighted_sums,
             gene_max_scores, res_df>>
calVars == <<weighted_scores_file, universe_file, score_map, uni_genes, full_df, mu,
             sigma, output_df>>
runVars == <<variants, output_file, existing, seen_snps, temp_results, run_i, calls, runs>>
fixVars == <<in_file, backup_file, fix_first, fix_runs>>
vars == <<pc, csVars, normVars, aggVars, calVars, runVars, fixVars>>

\* the variables of the other scripts
notCS == <<normVars, aggVars, calVars, runVars, fixVars>>
notNorm == <<csVars, aggVars, calVars, runVars, fixVars>>
notAgg == <<csVars, normVars, calVars, runVars, fixVars>>
notCal == <<csVars, normVars, aggVars, runVars, fixVars>>
notRun == <<csVars, normVars, aggVars, calVars, fixVars>>
notFix == <<csVars, normVars, aggVars, calVars, runVars>>

(***************************************************************************)
(* Bounds of the model.                                                    *)
(***************************************************************************)
MaxVariants == 3        \* rows of the GWAS table (clustering runs)
MaxLocusVariants == 3   \* rows of the GWAS table (probability runs)
MaxNormRows == 3        \* rows of the table of provided probabilities
MaxAggRows == 3         \* rows of the table of variant scores
MaxOrderRows == 3       \* rows of the table of variant scores (reordered runs)
MaxEdgeRows == 3        \* rows of the table of variant scores (incomplete rows)
MaxUniverseRows == 2    \* rows of the universe file
MaxScoreRows == 2       \* rows of the file of gene scores
MaxTieUniverse == 2     \* rows of the universe file (runs with equal scores)
MaxTieScores == 3       \* rows of the file of gene scores (runs with equal scores)
MaxSchemaRows == 2      \* rows of the GWAS table (runs with missing columns)
MaxFixRows == 2         \* lines of the file to repair
MaxRepairs == 2         \* starts of the repair
MaxRunVariants == 3     \* rows of the table of variants to score
MaxRuns == 2            \* starts of the scoring script
BATCH_SIZE == 2         \* BATCH_SIZE (100 in the source, scaled to the table)

(***************************************************************************)
(* Generic helpers.                                                        *)
(***************************************************************************)
Range(s) == {s[i] : i \in DOMAIN s}

\* a file that does not exist, and a file of rows
NoFile == [exists |-> FALSE, rows |-> <<>>]
FileOf(rows) == [exists |-> TRUE, rows |-> rows]

RECURSIVE SumSeq(_)
SumSeq(s) == IF s = <<>> THEN 0 ELSE Head(s) + SumSeq(Tail(s))

RECURSIVE ConcatAll(_)
ConcatAll(ss) == IF ss = <<>> THEN <<>> ELSE Head(ss) \o ConcatAll(Tail(ss))

\* The ascending sequence of the elements of a finite set of integers.
RECURSIVE SortedSeqOf(_)
SortedSeqOf(S) ==
    IF S = {} THEN <<>>
    ELSE LET m == CHOOSE x \in S : \A y \in S : x <= y
         IN <<m>> \o SortedSeqOf(S \ {m})

\* the permutations of 1..n
Perms(n) == {q \in [1..n -> 1..n] : \A i, j \in 1..n : q[i] = q[j] => i = j}
\* the permutations of the rows of a table of genes of every length
CalOrders == [n \in 0..(MaxUniverseRows + MaxScoreRows) |-> Perms(n)]

\* pandas sort_values on several columns (lexsort, stable): before[i][j] says
\* that row i sorts before row j; rows that it does not order keep their
\* relative order.
StableRank(before, i) ==
    1 + Cardinality({j \in DOMAIN before :
            before[j][i] \/ (~before[i][j] /\ j < i)})

PermuteBy(s, rank) == [k \in DOMAIN s |-> s[CHOOSE i \in DOMAIN s : rank[i] = k]]

StableSort(s, before) ==
    PermuteBy(s, [i \in DOMAIN s |-> StableRank(before, i)])

(***************************************************************************)
(* P-values.  A p-value 10^-k is written as its exponent k, so that        *)
(* -log10(P) is the integer k; the p-value 0 is written PZero.             *)
(***************************************************************************)
PZero == 400            \* the value 0 (below every positive double, 4.9e-324)
FloorExp == 300         \* 1e-300, the replacement of a zero p-value
SigExp == 8             \* P < 5e-8: the largest power of ten below 5e-8 is 1e-8
Window == 500000        \* the 500kb gap
NoChr == 0              \* last_chr = None
InitLastBp == -9999999  \* last_bp = -9999999
MassPct == 95           \* 0.95, in hundredths

\* P < Q on p-values
PLess(p, q) == p > q
\* df['P'] < 5e-8
Significant(p) == p >= SigExp

(***************************************************************************)
(* Probabilities of build_credible_sets.py.                                *)
(*                                                                         *)
(* exp(-d) is kept in ten-thousandths (ExpTable) for the small d the input *)
(* sets produce inside one magnitude of p-values.  A weight exp(-d) with   *)
(* d of several hundred (a zero p-value, replaced by 1e-300, beside an     *)
(* ordinary one) is a positive double far below 2^-54: added to a sum >= 1 *)
(* it leaves the double sum unchanged.  Such a weight is kept as `tiny`,   *)
(* its exponent d: it counts 0 in sums and is positive and ordered by d.   *)
(* A probability is the exact quotient num/den of weight and locus sum.    *)
(***************************************************************************)
ExpTable == <<10000, 3679, 1353, 498, 183, 67, 25, 9, 3, 1>>

\* np.exp(-d) for an integer d >= 0
ExpNeg(d) ==
    IF d < Len(ExpTable) THEN [m |-> ExpTable[d + 1], tiny |-> 0]
                         ELSE [m |-> 0, tiny |-> d]

\* x < y on probabilities
ProbLess(x, y) ==
    IF x.num # 0 \/ y.num # 0
    THEN x.num * y.den < y.num * x.den
    ELSE x.tiny > y.tiny \/ (x.tiny = y.tiny /\ x.den > y.den)

\* x < 0.95 on probabilities and cumulative probabilities
BelowMass(x) == 100 * x.num < MassPct * x.den

ProbZero == [num |-> 0, den |-> 1, tiny |-> 0]

\* Mutant: a floor, max(P, 1e-300), instead of the replacement of 0.
Replace0Floor(p) == IF p > FloorExp THEN FloorExp ELSE p

\* locus_df['P'].replace(0, 1e-300)
Replace0(p) == IF p = PZero THEN FloorExp ELSE p

\* calculate_proxy_pp(locus_df): the Proxy_PP of the rows of one locus
\* log_bf = -np.log10(p_values)
LogBF(locus_df) == [i \in DOMAIN locus_df |-> Replace0(locus_df[i].P)]

\* log_bf.max()
MaxVal(log_bf) == CHOOSE m \in Range(log_bf) : \A x \in Range(log_bf) : x <= m

\* exp_val = np.exp(log_bf - max_val)
ExpVal(log_bf, max_val) == [i \in DOMAIN log_bf |-> ExpNeg(max_val - log_bf[i])]

\* exp_val.sum()
ExpSum(exp_val) == SumSeq([i \in DOMAIN exp_val |-> exp_val[i].m])

\* proxy_pp = exp_val / exp_val.sum()
Quotient(exp_val, total) ==
    [i \in DOMAIN exp_val |->
        [num |-> exp_val[i].m, den |-> total, tiny |-> exp_val[i].tiny]]

Softmax(exp_val) == Quotient(exp_val, ExpSum(exp_val))

calculate_proxy_pp(locus_df) ==
    Softmax(ExpVal(LogBF(locus_df), MaxVal(LogBF(locus_df))))

(***************************************************************************)
(* create_proxy_credible_sets(df)                                          *)
(***************************************************************************)
\* sort_values(['CHR', 'P'])
BeforeChrP(a, b) == a.CHR < b.CHR \/ (a.CHR = b.CHR /\ PLess(a.P, b.P))
\* sort_values(['CHR', 'BP'])
BeforeChrBp(a, b) == a.CHR < b.CHR \/ (a.CHR = b.CHR /\ a.BP < b.BP)
\* sort_values(['Locus_ID', 'Proxy_PP'], ascending=[True, False])
BeforeLocusPp(a, b) ==
    \/ a.Locus_ID < b.Locus_ID
    \/ (a.Locus_ID = b.Locus_ID /\ ProbLess(b.Proxy_PP, a.Proxy_PP))

\* Mutants of the loop test: a gap of exactly the window splits; the
\* chromosome is not compared.
NewLocusGe(c, b, lc, lb) == c # lc \/ (b - lb >= Window)
NewLocusNoChr(c, b, lc, lb) == b - lb > Window

SortChrP(t) ==
    StableSort(t, [i \in DOMAIN t |-> [j \in DOMAIN t |-> BeforeChrP(t[i], t[j])]])
SortChrBp(t) ==
    StableSort(t, [i \in DOMAIN t |-> [j \in DOMAIN t |-> BeforeChrBp(t[i], t[j])]])
SortLocusPp(t) ==
    StableSort(t, [i \in DOMAIN t |-> [j \in DOMAIN t |-> BeforeLocusPp(t[i], t[j])]])

\* the test of the clustering loop: c != last_chr or (b - last_bp > 500000)
NewLocus(c, b, lc, lb) == c # lc \/ (b - lb > Window)

\* Mutants of the update of last_bp: last_bp keeps the position at which the
\* locus started; last_bp is never updated.
LastBpFromStart(b, lb, new) == IF new THEN b ELSE lb
LastBpStale(b, lb, new) == lb

\* last_bp = b, after a row at position b (new: the row started a locus)
LastBpAfter(b, lb, new) == b

\* the columns of the GWAS table that lines 71-184 read
GwasColumns == {"SNP", "CHR", "BP", "A1", "A2", "P"}
\* the columns the sorts of lines 119 and 129 name
SortColumns == {"CHR", "BP", "P"}

\* Lines 110-129: the significance filter, the early return of an empty
\* table, the two sorts and the loop variables.  A sort by a column the
\* table does not have raises KeyError.
CS_FilterSort ==
    /\ pc = "cs_start"
    /\ \E filtered \in {SelectSeq(df, LAMBDA r : Significant(r.P))} :
          IF Len(filtered) = 0
          THEN /\ sig' = filtered
               /\ credible_sets' = <<>>
               /\ pc' = "cs_done"
          ELSE IF ~SortColumns \subseteq df_columns
          THEN /\ sig' = filtered
               /\ credible_sets' = credible_sets
               /\ pc' = "cs_keyerror"
          ELSE /\ \E byP \in {SortChrP(filtered)} : sig' = SortChrBp(byP)
               /\ credible_sets' = credible_sets
               /\ pc' = "cs_loop"
    /\ locus_ids' = <<>>
    /\ current_locus' = 0
    /\ last_chr' = NoChr
    /\ last_bp' = InitLastBp
    /\ UNCHANGED <<df, df_columns, proxy_file, notCS>>

\* Lines 131-140: one iteration of `for idx, row in sig.iterrows()`.
CS_LoopStep ==
    /\ pc = "cs_loop"
    /\ Len(locus_ids) < Len(sig)
    /\ LET row == sig[Len(locus_ids) + 1]
           c == row.CHR
           b == row.BP
           cl == IF NewLocus(c, b, last_chr, last_bp)
                 THEN current_locus + 1 ELSE current_locus
       IN /\ current_locus' = cl
          /\ locus_ids' = Append(locus_ids, cl)
          /\ last_chr' = c
          /\ last_bp' = LastBpAfter(b, last_bp, NewLocus(c, b, last_chr, last_bp))
    /\ UNCHANGED <<pc, df, df_columns, proxy_file, sig, credible_sets, notCS>>

\* sig.groupby('Locus_ID', group_keys=False).apply(calculate_proxy_pp).values:
\* the groups in ascending key order, each with its rows in table order, the
\* results concatenated.
\* Mutant: the probabilities are computed over the whole table, not by locus.
ApplyUngrouped(t, keys) == calculate_proxy_pp(t)

\* Mutant: the groups in descending key order.
GroupKeysDescending(t) ==
    LET up == SortedSeqOf({t[i].Locus_ID : i \in DOMAIN t})
    IN [k \in DOMAIN up |-> up[Len(up) + 1 - k]]

GroupKeys(t) == SortedSeqOf({t[i].Locus_ID : i \in DOMAIN t})

ApplyByGroup(t, keys) ==
    ConcatAll([k \in DOMAIN keys |->
        calculate_proxy_pp(SelectSeq(t, LAMBDA r : r.Locus_ID = keys[k]))])

GroupApplyValues(t) == ApplyByGroup(t, GroupKeys(t))

\* sig['Locus_ID'] = locus_ids
WithLocusId(t, ids) ==
    [i \in DOMAIN t |-> [SNP |-> t[i].SNP, CHR |-> t[i].CHR, BP |-> t[i].BP,
                         P |-> t[i].P, Locus_ID |-> ids[i]]]

\* sig['Proxy_PP'] = values
WithProxyPP(t, values) ==
    [i \in DOMAIN t |-> [SNP |-> t[i].SNP, CHR |-> t[i].CHR, BP |-> t[i].BP,
                         P |-> t[i].P, Locus_ID |-> t[i].Locus_ID,
                         Proxy_PP |-> values[i]]]

\* Lines 142-148: the Locus_ID column, then the Proxy_PP column, written by
\* row position.
CS_CalcPP ==
    /\ pc = "cs_loop"
    /\ Len(locus_ids) = Len(sig)
    /\ \E withId \in {WithLocusId(sig, locus_ids)} :
         \E values \in {GroupApplyValues(withId)} :
            sig' = WithProxyPP(withId, values)
    /\ pc' = "cs_pp"
    /\ UNCHANGED <<df, df_columns, proxy_file, locus_ids, current_locus, last_chr,
                   last_bp, credible_sets,
                   notCS>>

\* sig.groupby('Locus_ID')['Proxy_PP'].cumsum() at row i of t
CumulativePP(t, i) ==
    LET idx == {j \in 1..i : t[j].Locus_ID = t[i].Locus_ID}
    IN [num  |-> SumSeq([k \in 1..i |-> IF k \in idx THEN t[k].Proxy_PP.num ELSE 0]),
        den  |-> t[i].Proxy_PP.den,
        tiny |-> 0]

\* groupby('Locus_ID')['Cumulative_PP'].shift(1).fillna(0) at row i of t
ShiftedCumulative(t, i) ==
    LET prev == {j \in 1..(i - 1) : t[j].Locus_ID = t[i].Locus_ID}
    IN IF prev = {} THEN ProbZero
       ELSE t[CHOOSE j \in prev : \A k \in prev : k <= j].Cumulative_PP

\* Mutant: the cumulative sum is compared without the shift.
MaskUnshifted(t, i) == BelowMass(t[i].Cumulative_PP)

\* the mask of line 160 at row i of t
Mask(t, i) == BelowMass(ShiftedCumulative(t, i))

MaskOf(t) == [i \in DOMAIN t |-> Mask(t, i)]

\* sig['Cumulative_PP'] = ...cumsum()
WithCumulative(t) ==
    [i \in DOMAIN t |-> [SNP |-> t[i].SNP, CHR |-> t[i].CHR, BP |-> t[i].BP,
                         P |-> t[i].P, Locus_ID |-> t[i].Locus_ID,
                         Proxy_PP |-> t[i].Proxy_PP,
                         Cumulative_PP |-> CumulativePP(t, i)]]

\* sig[mask]: the rows whose mask is True, in table order
RECURSIVE FilteredFrom(_, _, _)
FilteredFrom(t, mask, i) ==
    IF i > Len(t) THEN <<>>
    ELSE (IF mask[i] THEN <<t[i]>> ELSE <<>>) \o FilteredFrom(t, mask, i + 1)

Filtered(t, mask) == FilteredFrom(t, mask, 1)

\* Lines 150-166: the sort by descending probability, the cumulative sum and
\* the credible-set filter.
CS_Truncate ==
    /\ pc = "cs_pp"
    /\ \E sorted \in {SortLocusPp(sig)} :
         \E withCum \in {WithCumulative(sorted)} :
            /\ sig' = withCum
            /\ credible_sets' = Filtered(withCum, MaskOf(withCum))
    /\ pc' = "cs_done"
    /\ UNCHANGED <<df, df_columns, proxy_file, locus_ids, current_locus, last_chr,
                   last_bp, notCS>>

\* out_cols of main
OutCols ==
    {"Locus_ID", "SNP", "CHR", "BP", "A1", "A2", "P", "Proxy_PP", "Cumulative_PP"}

\* the columns of the table create_proxy_credible_sets returns: none for the
\* pd.DataFrame() of line 115
ResultColumns ==
    IF sig = <<>> THEN {}
    ELSE df_columns \cup {"Locus_ID", "Proxy_PP", "Cumulative_PP"}

\* main, lines 177-184: the columns out_cols of the returned table are
\* written; selecting columns the table does not have raises KeyError.
CS_Main ==
    /\ pc = "cs_done"
    /\ IF OutCols \subseteq ResultColumns
       THEN /\ proxy_file' = FileOf(credible_sets)
            /\ pc' = "cs_saved"
       ELSE /\ proxy_file' = proxy_file
            /\ pc' = "cs_main_keyerror"
    /\ UNCHANGED <<df, df_columns, sig, locus_ids, current_locus, last_chr, last_bp,
                   credible_sets, notCS>>

NextCS == CS_FilterSort \/ CS_LoopStep \/ CS_CalcPP \/ CS_Truncate \/ CS_Main

(***************************************************************************)
(* Input tables of the clustering runs: up to MaxVariants rows, on two     *)
(* chromosomes, at positions whose gaps are below, equal to and above the  *)
(* window, with one p-value that is not significant.                       *)
(***************************************************************************)
ClusterChrs == {1, 2}
ClusterBps == {0, 400000, 800000, 1300000}
ClusterPs == {7, 8, 9}

TableOf(n, f) ==
    [i \in 1..n |-> [SNP |-> i, CHR |-> f[i][1], BP |-> f[i][2], P |-> f[i][3]]]

\* the variables of a script that does not run
IdleCS ==
    /\ df = <<>> /\ df_columns = {} /\ proxy_file = NoFile /\ sig = <<>> /\ locus_ids = <<>> /\ current_locus = 0
    /\ last_chr = NoChr /\ last_bp = InitLastBp /\ credible_sets = <<>>
IdleNorm == norm_df = <<>> /\ norm_warning = FALSE /\ norm_out = <<>>
NoValue == [num |-> 0, den |-> 0]
IdleCal ==
    /\ weighted_scores_file = NoFile
    /\ universe_file = [exists |-> FALSE, col |-> FALSE, rows |-> <<>>]
    /\ score_map = <<>>
    /\ uni_genes = {} /\ full_df = <<>> /\ mu = NoValue /\ sigma = NoValue
    /\ output_df = <<>>
IdleFix ==
    /\ in_file = NoFile /\ backup_file = NoFile /\ fix_first = NoFile /\ fix_runs = 0
IdleRun ==
    /\ variants = <<>> /\ output_file = NoFile /\ existing = NoFile
    /\ seen_snps = {} /\ temp_results = <<>> /\ run_i = 0 /\ calls = <<>>
    /\ runs = 0
IdleAgg ==
    /\ scores_file = <<>> /\ pp_column = TRUE /\ meta_file = NoFile
    /\ agg_df = <<>> /\ agg_i = 0 /\ gene_weighted_sums = <<>>
    /\ gene_max_scores = <<>> /\ res_df = <<>>

InitCSRest ==
    /\ pc = "cs_start"
    /\ proxy_file = NoFile
    /\ IdleNorm
    /\ IdleAgg
    /\ IdleCal
    /\ IdleRun
    /\ IdleFix
    /\ sig = <<>>
    /\ locus_ids = <<>>
    /\ current_locus = 0
    /\ last_chr = NoChr
    /\ last_bp = InitLastBp
    /\ credible_sets = <<>>

InitCluster ==
    /\ \E n \in 0..MaxVariants :
         \E f \in [1..n -> ClusterChrs \X ClusterBps \X ClusterPs] :
             df = TableOf(n, f)
    /\ df_columns = GwasColumns
    /\ InitCSRest

SpecCluster == InitCluster /\ [][NextCS]_vars

\* Input tables that lack the column CHR, the column BP or both (the values
\* of a missing column are never read).
InitSchema ==
    /\ \E n \in 0..MaxSchemaRows :
         \E f \in [1..n -> ClusterChrs \X ClusterBps \X ClusterPs] :
             df = TableOf(n, f)
    /\ \E missing \in SUBSET {"CHR", "BP"} : df_columns = GwasColumns \ missing
    /\ InitCSRest

SpecSchema == InitSchema /\ [][NextCS]_vars

(***************************************************************************)
(* Input tables of the probability runs: up to MaxLocusVariants            *)
(* significant rows on one chromosome, two positions within the window of  *)
(* each other and one beyond it, p-values 1e-8, 1e-9, 1e-11, 1e-300,       *)
(* 1e-302 and 0.                                                           *)
(***************************************************************************)
LocusChrs == {1}
LocusBps == {0, 400000, 1300000}
LocusPs == {8, 9, 11, FloorExp, FloorExp + 2, PZero}

InitPP ==
    /\ \E n \in 0..MaxLocusVariants :
         \E f \in [1..n -> LocusChrs \X LocusBps \X LocusPs] :
             df = TableOf(n, f)
    /\ df_columns = GwasColumns
    /\ InitCSRest

SpecPP == InitPP /\ [][NextCS]_vars

(***************************************************************************)
(* normalize_posterior_probabilities(input_file, output_file)              *)
(*                                                                         *)
(* A provided probability is a number of hundredths.  A normalised         *)
(* probability is the exact quotient num/den; den = 0 is the NaN of 0/0.   *)
(***************************************************************************)
\* x.sum() over the rows of locus l
LocusSum(t, l) ==
    SumSeq([i \in DOMAIN t |-> IF t[i].Locus_ID = l THEN t[i].PP ELSE 0])

\* Mutants: division by the sum of the whole table; the probability
\* recomputed from the p-values of the locus.
TransformUngrouped(t) ==
    [i \in DOMAIN t |->
        [num |-> t[i].PP, den |-> SumSeq([j \in DOMAIN t |-> t[j].PP])]]
TransformFromP(t) ==
    [i \in DOMAIN t |->
        LET q == calculate_proxy_pp(SelectSeq(t, LAMBDA r : r.Locus_ID = t[i].Locus_ID))
            k == Cardinality({j \in 1..i : t[j].Locus_ID = t[i].Locus_ID})
        IN [num |-> q[k].num, den |-> q[k].den]]

\* df.groupby('Locus_ID')['PP'].transform(lambda x: x / x.sum())
Transform(t) ==
    [i \in DOMAIN t |-> [num |-> t[i].PP, den |-> LocusSum(t, t[i].Locus_ID)]]

\* Line 67: the column PP_normalized.
N_Transform ==
    /\ pc = "norm_start"
    /\ \E col \in {Transform(norm_df)} :
         norm_df' = [i \in DOMAIN norm_df |->
                        [SNP |-> norm_df[i].SNP, Locus_ID |-> norm_df[i].Locus_ID,
                         P |-> norm_df[i].P, PP |-> norm_df[i].PP,
                         PP_normalized |-> col[i]]]
    /\ pc' = "norm_verify"
    /\ UNCHANGED <<norm_warning, norm_out, notNorm>>

\* pp_sums_after of locus l is 1.0 within 1e-10 (the sum skips NaN, so a locus
\* of NaN sums to 0)
SumAfterIsOne(t, l) ==
    /\ \E i \in DOMAIN t : t[i].Locus_ID = l /\ t[i].PP_normalized.den # 0
    /\ \A i \in DOMAIN t :
          t[i].Locus_ID = l =>
              SumSeq([j \in DOMAIN t |->
                        IF t[j].Locus_ID = l THEN t[j].PP_normalized.num ELSE 0])
                  = t[i].PP_normalized.den

\* Lines 70-85: the sums after normalisation and the warning.
N_Verify ==
    /\ pc = "norm_verify"
    /\ norm_warning' =
          (\E i \in DOMAIN norm_df : ~SumAfterIsOne(norm_df, norm_df[i].Locus_ID))
    /\ pc' = "norm_save"
    /\ UNCHANGED <<norm_df, norm_out, notNorm>>

\* Lines 88-94: PP becomes PP_original, PP_normalized becomes PP; the table is
\* written.
N_Save ==
    /\ pc = "norm_save"
    /\ \E renamed \in {[i \in DOMAIN norm_df |->
                        [SNP |-> norm_df[i].SNP, Locus_ID |-> norm_df[i].Locus_ID,
                         P |-> norm_df[i].P, PP_original |-> norm_df[i].PP,
                         PP |-> norm_df[i].PP_normalized]]} :
         /\ norm_df' = renamed
         /\ norm_out' = renamed
    /\ pc' = "norm_done"
    /\ UNCHANGED <<norm_warning, notNorm>>

NextNorm == N_Transform \/ N_Verify \/ N_Save

\* Input tables: up to MaxNormRows rows in two loci, provided probabilities
\* 0, 0.2, 0.5, 1.0 and 2.5 (locus sums from 0 to above 5), two p-values.
NormLoci == {1, 2}
NormPPs == {0, 20, 50, 100, 250}
NormPs == {8, 9}

InitNorm ==
    /\ \E n \in 1..MaxNormRows :
         \E f \in [1..n -> NormLoci \X NormPPs \X NormPs] :
             norm_df = [i \in 1..n |-> [SNP |-> i, Locus_ID |-> f[i][1],
                                        P |-> f[i][3], PP |-> f[i][2]]]
    /\ norm_warning = FALSE
    /\ norm_out = <<>>
    /\ pc = "norm_start"
    /\ IdleCS
    /\ IdleAgg
    /\ IdleCal
    /\ IdleRun
    /\ IdleFix

SpecNorm == InitNorm /\ [][NextNorm]_vars

(***************************************************************************)
(* Python floats (IEEE 754 binary64), non-negative.                        *)
(*                                                                         *)
(* A double is [e, hi, lo]: the 53-bit significand hi * 2^27 + lo, with    *)
(* 2^25 <= hi < 2^26 and 0 <= lo < 2^27, times 2^(e - 52).  Zero has       *)
(* hi = 0, NaN has hi = -1.  Sums are rounded to nearest, ties to even, as *)
(* the hardware does: the significands get three more bits (guard, round,  *)
(* sticky), the smaller operand is shifted right with the bits shifted out *)
(* collected in the sticky bit.                                            *)
(***************************************************************************)
P24 == 2^24
P25 == 2^25
P26 == 2^26
P27 == 2^27
P29 == 2^29

FZero == [e |-> 0, hi |-> 0, lo |-> 0]
FNaN == [e |-> 0, hi |-> -1, lo |-> 0]

\* float("1.0"), float("0.5"), and the effects float("0.200"), float("0.300"),
\* float("0.400")
F1_0 == [e |-> 0, hi |-> P25, lo |-> 0]
F0_5 == [e |-> -1, hi |-> P25, lo |-> 0]
F0_2 == [e |-> -3, hi |-> 53687091, lo |-> 26843546]
F0_3 == [e |-> -2, hi |-> 40265318, lo |-> 53687091]
F0_4 == [e |-> -2, hi |-> 53687091, lo |-> 26843546]

\* a < b
FLess(a, b) ==
    IF a.hi = 0 THEN b.hi # 0
    ELSE IF b.hi = 0 THEN FALSE
    ELSE \/ a.e < b.e
         \/ (a.e = b.e /\ a.hi < b.hi)
         \/ (a.e = b.e /\ a.hi = b.hi /\ a.lo < b.lo)

\* Mutant of max: the later value wins.
FMaxLast(a, b) == b

\* max(a, b) of Python: b only if b > a
FMax(a, b) == IF FLess(a, b) THEN b ELSE a

\* a 56-bit significand <<H, L>> (L the low 27 bits) shifted right by one bit,
\* the bit shifted out kept in the lowest bit
ShiftRight1(x) ==
    LET l == (x[1] % 2) * P26 + (x[2] \div 2)
    IN <<x[1] \div 2, IF x[2] % 2 = 1 /\ l % 2 = 0 THEN l + 1 ELSE l>>

RECURSIVE ShiftRight(_, _)
ShiftRight(x, s) == IF s = 0 THEN x ELSE ShiftRight(ShiftRight1(x), s - 1)

\* the significand of a with the three extra bits
Extended(a) == <<a.hi * 8 + (a.lo \div P24), (a.lo % P24) * 8>>

\* the exact sum x + y of two extended significands
AddLimbs(x, y) == <<x[1] + y[1] + ((x[2] + y[2]) \div P27), (x[2] + y[2]) % P27>>

\* the extended significand x at exponent e, rounded to 53 bits
RoundExtended(e, x) ==
    LET r  == x[2] % 8
        hi == x[1] \div 8
        lo == (x[1] % 8) * P24 + (x[2] \div 8)
        up == r > 4 \/ (r = 4 /\ lo % 2 = 1)
    IN IF ~up THEN [e |-> e, hi |-> hi, lo |-> lo]
       ELSE IF lo + 1 < P27 THEN [e |-> e, hi |-> hi, lo |-> lo + 1]
       ELSE IF hi + 1 < P26 THEN [e |-> e, hi |-> hi + 1, lo |-> 0]
       ELSE [e |-> e + 1, hi |-> P25, lo |-> 0]

\* the sum at exponent e, renormalised when it has a 57th bit
Normalised(e, x) ==
    IF x[1] >= P29 THEN RoundExtended(e + 1, ShiftRight1(x))
                   ELSE RoundExtended(e, x)

\* a + b for a.e >= b.e, both positive
AddOrdered(a, b) ==
    Normalised(a.e, AddLimbs(Extended(a),
                             ShiftRight(Extended(b), IF a.e - b.e > 60 THEN 60
                                                     ELSE a.e - b.e)))

\* a + b
FAdd(a, b) ==
    IF a.hi = 0 THEN b
    ELSE IF b.hi = 0 THEN a
    ELSE IF a.e >= b.e THEN AddOrdered(a, b) ELSE AddOrdered(b, a)

\* a * b for b zero or a power of two (the probabilities of the input sets
\* are 0, 0.5 and 1.0): the product is exact
FMul(a, b) ==
    CASE a.hi = 0 \/ b.hi = 0 -> FZero
      [] b.hi = P25 /\ b.lo = 0 -> [e |-> a.e + b.e, hi |-> a.hi, lo |-> a.lo]

(***************************************************************************)
(* Python dicts: the items in insertion order, [k, v] each.                *)
(***************************************************************************)
DictHas(d, k) == \E i \in DOMAIN d : d[i].k = k
DictGet(d, k) == d[CHOOSE i \in DOMAIN d : d[i].k = k].v
DictSet(d, k, v) ==
    IF DictHas(d, k)
    THEN [i \in DOMAIN d |-> IF d[i].k = k THEN [k |-> k, v |-> v] ELSE d[i]]
    ELSE Append(d, [k |-> k, v |-> v])
DictKeys(d) == {d[i].k : i \in DOMAIN d}

(***************************************************************************)
(* compute_gene_scores.py                                                  *)
(*                                                                         *)
(* A row of the scores table: SNP, Proxy_PP (a double or NaN), all_genes   *)
(* (the entries between ';' in order, each [g, s, ok]: gene, float(score), *)
(* and whether the entry has a ':' and a score float() accepts; <<>> is    *)
(* the empty or missing string), target_gene ("" is missing) and           *)
(* target_gene_score.                                                      *)
(***************************************************************************)
\* the loop over str(val).split(';') from entry i on
RECURSIVE ParseEntries(_, _, _)
ParseEntries(entries, i, gene_map) ==
    IF i > Len(entries) THEN gene_map
    ELSE ParseEntries(entries, i + 1,
             IF entries[i].ok THEN DictSet(gene_map, entries[i].g, entries[i].s)
                              ELSE gene_map)

\* parse_gene_scores(row)
parse_gene_scores(row) ==
    IF row.all_genes = <<>>
    THEN IF row.target_gene # "" /\ FLess(FZero, row.target_gene_score)
         THEN <<[k |-> row.target_gene, v |-> row.target_gene_score]>>
         ELSE <<>>
    ELSE ParseEntries(row.all_genes, 1, <<>>)

\* Mutant: a missing probability filled with full weight.
FillNaOne(x) == IF x = FNaN THEN F1_0 ELSE x

\* df['Proxy_PP'].fillna(0.0)
FillNa(x) == IF x = FNaN THEN FZero ELSE x

\* Mutant of the contribution: the effect without its weight.
ContributionUnweighted(effect, pp) == effect

\* contribution = effect * pp
Contribution(effect, pp) == FMul(effect, pp)
\* gene_weighted_sums[gene] += contribution
Accumulate(sum, contribution) == FAdd(sum, contribution)

\* the dicts st = [sums, maxs] with gene initialised (lines 107-109)
WithGene(st, gene) ==
    IF DictHas(st.sums, gene) THEN st
    ELSE [sums |-> DictSet(st.sums, gene, FZero),
          maxs |-> DictSet(st.maxs, gene, FZero)]

\* lines 111-112 on the dicts st, which hold gene
UpdateGene(st, gene, effect, pp) ==
    [sums |-> DictSet(st.sums, gene,
                      Accumulate(DictGet(st.sums, gene), Contribution(effect, pp))),
     maxs |-> DictSet(st.maxs, gene, FMax(DictGet(st.maxs, gene), effect))]

\* the loop `for gene, effect in Variant_Genes.items()` from item i on
RECURSIVE AggItems(_, _, _, _)
AggItems(st, items, i, pp) ==
    IF i > Len(items) THEN st
    ELSE AggItems(UpdateGene(WithGene(st, items[i].k), items[i].k, items[i].v, pp),
                  items, i + 1, pp)

\* the body of `for _, row in df.iterrows()` (lines 97-112)
AggRow(st, row) == AggItems(st, parse_gene_scores(row), 1, row.Proxy_PP)

\* the whole loop over the rows of t from row i on
RECURSIVE AggRows(_, _, _)
AggRows(st, t, i) ==
    IF i > Len(t) THEN st ELSE AggRows(AggRow(st, t[i]), t, i + 1)

\* aggregate_scores on the rows of t: the dicts after the loop
aggregate(t) == AggRows([sums |-> <<>>, maxs |-> <<>>], t, 1)

\* the rows of df.merge(meta, on='SNP', how='left') that come from row: one
\* for every row of meta with its SNP, in the order of meta, or one without
\* Proxy_PP
MergedRow(row, meta) ==
    IF \E j \in DOMAIN meta : meta[j].SNP = row.SNP
    THEN [j \in DOMAIN SelectSeq(meta, LAMBDA m : m.SNP = row.SNP) |->
            [row EXCEPT !.Proxy_PP =
                SelectSeq(meta, LAMBDA m : m.SNP = row.SNP)[j].Proxy_PP]]
    ELSE <<[row EXCEPT !.Proxy_PP = FNaN]>>

\* df.merge(meta, on='SNP', how='left')
Merged(t, meta) == ConcatAll([i \in DOMAIN t |-> MergedRow(t[i], meta)])

\* df['Proxy_PP'] = df['Proxy_PP'].fillna(0.0)
Filled(t) == [i \in DOMAIN t |-> [t[i] EXCEPT !.Proxy_PP = FillNa(t[i].Proxy_PP)]]

\* Lines 63-93: the table is read; without a column Proxy_PP the
\* probabilities are merged from the credible-set file or, without that
\* file, None is returned; a missing Proxy_PP becomes 0.0; the dicts are
\* empty.
A_Load ==
    /\ pc = "agg_start"
    /\ IF pp_column
       THEN /\ agg_df' = Filled(scores_file)
            /\ pc' = "agg_loop"
       ELSE IF ~meta_file.exists
       THEN /\ agg_df' = scores_file
            /\ pc' = "agg_none"
       ELSE /\ agg_df' = Filled(Merged(scores_file, meta_file.rows))
            /\ pc' = "agg_loop"
    /\ agg_i' = 0
    /\ gene_weighted_sums' = <<>>
    /\ gene_max_scores' = <<>>
    /\ UNCHANGED <<scores_file, pp_column, meta_file, res_df, notAgg>>

\* Lines 96-112: one iteration of the loop over the rows.
A_Row ==
    /\ pc = "agg_loop"
    /\ agg_i < Len(agg_df)
    /\ \E st \in {AggRow([sums |-> gene_weighted_sums, maxs |-> gene_max_scores],
                         agg_df[agg_i + 1])} :
         /\ gene_weighted_sums' = st.sums
         /\ gene_max_scores' = st.maxs
    /\ agg_i' = agg_i + 1
    /\ UNCHANGED <<pc, scores_file, pp_column, meta_file, agg_df, res_df, notAgg>>

\* results of lines 115-122, in the order of the dict
Results(sums, maxs) ==
    [i \in DOMAIN sums |-> [gene |-> sums[i].k, weighted_score |-> sums[i].v,
                            max_score |-> DictGet(maxs, sums[i].k)]]

\* sort_values('weighted_score', ascending=False)
SortByScore(t) ==
    StableSort(t, [i \in DOMAIN t |-> [j \in DOMAIN t |->
                      FLess(t[j].weighted_score, t[i].weighted_score)]])

\* Lines 114-129: the result table, sorted.  pd.DataFrame([]) has no column
\* weighted_score: with no gene at all sort_values raises KeyError.
A_Format ==
    /\ pc = "agg_loop"
    /\ agg_i = Len(agg_df)
    /\ IF gene_weighted_sums = <<>>
       THEN /\ pc' = "agg_keyerror"
            /\ res_df' = res_df
       ELSE /\ pc' = "agg_done"
            /\ res_df' = SortByScore(Results(gene_weighted_sums, gene_max_scores))
    /\ UNCHANGED <<scores_file, pp_column, meta_file, agg_df, agg_i,
                   gene_weighted_sums, gene_max_scores, notAgg>>

NextAgg == A_Load \/ A_Row \/ A_Format

\* Input tables: up to MaxAggRows rows; probabilities missing, 0, 0.5 and
\* 1.0; the genes of a row are none with target gene G1 at 0.2, G1:0.300,
\* G1:0.400;G2:0.200, or G2:0.300;G2:0.400;G2:x (a gene named twice, and an
\* entry float() rejects).
AggPPs == {FNaN, FZero, F0_5, F1_0}
Entry(g, s) == [g |-> g, s |-> s, ok |-> TRUE]
BadEntry(g) == [g |-> g, s |-> FZero, ok |-> FALSE]
AggGenes ==
    { [all_genes |-> <<>>, target_gene |-> "G1", target_gene_score |-> F0_2],
      [all_genes |-> <<Entry("G1", F0_3)>>, target_gene |-> "G1",
       target_gene_score |-> F0_3],
      [all_genes |-> <<Entry("G1", F0_4), Entry("G2", F0_2)>>,
       target_gene |-> "G1", target_gene_score |-> F0_4],
      [all_genes |-> <<Entry("G2", F0_3), Entry("G2", F0_4), BadEntry("G2")>>,
       target_gene |-> "G2", target_gene_score |-> F0_4] }

AggTable(n, f) ==
    [i \in 1..n |-> [SNP |-> i, Proxy_PP |-> f[i][1],
                     all_genes |-> f[i][2].all_genes,
                     target_gene |-> f[i][2].target_gene,
                     target_gene_score |-> f[i][2].target_gene_score]]

InitAggRest ==
    /\ agg_df = <<>>
    /\ agg_i = 0
    /\ gene_weighted_sums = <<>>
    /\ gene_max_scores = <<>>
    /\ res_df = <<>>
    /\ pc = "agg_start"
    /\ IdleCS
    /\ IdleNorm
    /\ IdleCal
    /\ IdleRun
    /\ IdleFix

InitAgg ==
    /\ \E n \in 0..MaxAggRows :
         \E f \in [1..n -> AggPPs \X AggGenes] : scores_file = AggTable(n, f)
    /\ pp_column = TRUE
    /\ meta_file = NoFile
    /\ InitAggRest

SpecAgg == InitAgg /\ [][NextAgg]_vars

\* Input tables of the runs on reordered rows: up to MaxOrderRows rows, no
\* probability missing.
OrderPPs == {FZero, F0_5, F1_0}
InitOrder ==
    /\ \E n \in 0..MaxOrderRows :
         \E f \in [1..n -> OrderPPs \X AggGenes] : scores_file = AggTable(n, f)
    /\ pp_column = TRUE
    /\ meta_file = NoFile
    /\ InitAggRest

SpecOrder == InitOrder /\ [][NextAgg]_vars

\* Input tables of the runs on incomplete rows: up to MaxEdgeRows rows; the
\* column Proxy_PP present (values missing, 0 or 1.0) or absent, and then the
\* credible-set file absent or with a probability for SNP 1; the genes of a
\* row are none at all, G1:0.000, G1:0.400, or G1:0.300;G2:0.200.
EdgePPs == {FNaN, FZero, F1_0}
EdgeGenes ==
    { [all_genes |-> <<>>, target_gene |-> "", target_gene_score |-> FZero],
      [all_genes |-> <<Entry("G1", FZero)>>, target_gene |-> "",
       target_gene_score |-> FZero],
      [all_genes |-> <<Entry("G1", F0_4)>>, target_gene |-> "G1",
       target_gene_score |-> F0_4],
      [all_genes |-> <<Entry("G1", F0_3), Entry("G2", F0_2)>>,
       target_gene |-> "G1", target_gene_score |-> F0_3] }
EdgeMetas == {NoFile, FileOf(<<[SNP |-> 1, Proxy_PP |-> F1_0]>>)}

InitEdge ==
    /\ \E n \in 0..MaxEdgeRows :
         \/ /\ pp_column = TRUE
            /\ meta_file = NoFile
            /\ \E f \in [1..n -> EdgePPs \X EdgeGenes] : scores_file = AggTable(n, f)
         \/ /\ pp_column = FALSE
            /\ meta_file \in EdgeMetas
            /\ \E f \in [1..n -> {FNaN} \X EdgeGenes] : scores_file = AggTable(n, f)
    /\ InitAggRest

SpecEdge == InitEdge /\ [][NextAgg]_vars

(***************************************************************************)
(* compute_empirical_zscores.py                                            *)
(*                                                                         *)
(* Scores are the doubles 0.0, 1.0, 2.0, ..., kept as integers; mu, sigma  *)
(* and the z-scores are kept exactly: a value is [num, den], the quotient  *)
(* num / den, or NoValue (NaN); sigma and a z-score are kept by their      *)
(* square, a z-score with its sign.                                        *)
(***************************************************************************)
\* a value of the gene column that is missing
NaGene == ""

\* dict(zip(scores_df['gene'], scores_df['weighted_score'])) from row i on
RECURSIVE ZipDict(_, _, _)
ZipDict(t, i, d) ==
    IF i > Len(t) THEN d
    ELSE ZipDict(t, i + 1, DictSet(d, t[i].gene, t[i].weighted_score))

\* set(uni_df[col].dropna().unique())
GeneSet(rows) == {rows[i] : i \in DOMAIN rows} \ {NaGene}

\* Lines 41-61: the files are read.  Without the scores file None is
\* returned; reading a universe file that does not exist raises
\* FileNotFoundError, and without a gene column uni_df[None] raises KeyError.
\* Mutant: a universe file that cannot be used is read as an empty gene list.
UniverseUsableAlways(file) == TRUE

\* pd.read_csv(universe_file) and uni_df[col] both return
UniverseUsable(file) == file.exists /\ file.col

\* In main (line 134) the None returned without a scores file is unpacked
\* into two names, which raises TypeError: nothing is saved.
Z_Load ==
    /\ pc = "cal_start"
    /\ IF ~weighted_scores_file.exists
       THEN /\ pc' = "cal_none"
            /\ UNCHANGED <<score_map, uni_genes>>
       ELSE IF ~UniverseUsable(universe_file)
       THEN /\ pc' = "cal_error"
            /\ UNCHANGED <<score_map, uni_genes>>
       ELSE /\ pc' = "cal_merge"
            /\ uni_genes' = GeneSet(universe_file.rows)
            /\ score_map' = ZipDict(weighted_scores_file.rows, 1, <<>>)
    /\ UNCHANGED <<weighted_scores_file, universe_file, full_df, mu, sigma, output_df,
                   notCal>>

\* score_map.get(gene, 0.0)
ScoreGet(d, gene) == IF DictHas(d, gene) THEN DictGet(d, gene) ELSE 0

\* the orders a loop over a set of genes can take: a Python set of strings
\* has no order of its own (it follows the hashes, which change from run to
\* run)
SetOrders(S) ==
    {q \in [1..Cardinality(S) -> S] : \A i, j \in DOMAIN q : q[i] = q[j] => i = j}

\* lines 64-66 for the genes in the order q
UniverseRows(q, d) == [i \in DOMAIN q |-> [gene |-> q[i], raw_score |-> ScoreGet(d, q[i])]]

\* Mutant: every scored gene is added again.
NotInUniverseAny(gene, S) == TRUE

\* gene not in all_genes
NotInUniverse(gene, S) == gene \notin S

\* lines 69-71
ExtraRows(d, S) ==
    [i \in DOMAIN SelectSeq(d, LAMBDA e : NotInUniverse(e.k, S)) |->
        [gene |-> SelectSeq(d, LAMBDA e : NotInUniverse(e.k, S))[i].k,
         raw_score |-> SelectSeq(d, LAMBDA e : NotInUniverse(e.k, S))[i].v]]

\* full_data when the loop of line 64 passes the set S in the order q
FullTable(q, d, S) == UniverseRows(q, d) \o ExtraRows(d, S)

\* Lines 63-73: the table of all genes.
Z_Merge ==
    /\ pc = "cal_merge"
    /\ \E q \in SetOrders(uni_genes) : full_df' = FullTable(q, score_map, uni_genes)
    /\ pc' = "cal_stats"
    /\ UNCHANGED <<weighted_scores_file, universe_file, score_map, uni_genes, mu, sigma,
                   output_df, notCal>>

ScoreSum(t) == SumSeq([i \in DOMAIN t |-> t[i].raw_score])
ScoreSumSq(t) == SumSeq([i \in DOMAIN t |-> t[i].raw_score * t[i].raw_score])

\* df['raw_score'].mean()
Mean(t) == [num |-> ScoreSum(t), den |-> Len(t)]

\* the square of df['raw_score'].std(): pandas divides by n - 1 (ddof = 1);
\* for a single row it is NaN
Var(t) ==
    IF Len(t) = 1 THEN NoValue
    ELSE [num |-> Len(t) * ScoreSumSq(t) - ScoreSum(t) * ScoreSum(t),
          den |-> Len(t) * (Len(t) - 1)]

RECURSIVE Gcd(_, _)
Gcd(a, b) == IF b = 0 THEN a ELSE Gcd(b, a % b)

\* the quotient a / b in lowest terms (b = 0: infinite)
Lowest(a, b) == [num |-> a \div Gcd(a, b), den |-> b \div Gcd(a, b)]

\* a z-score of sign sgn and square sq
SignedRoot(sgn, sq) == [nan |-> FALSE, sgn |-> sgn, num |-> sq.num, den |-> sq.den]
ZNaN == [nan |-> TRUE, sgn |-> 0, num |-> 0, den |-> 0]

\* (x - m) / sigma for sigma squared v: NaN when sigma is NaN or when it is
\* 0 / 0
ZScore(x, m, v) ==
    IF v = NoValue \/ (v.num = 0 /\ x * m.den = m.num)
    THEN ZNaN
    ELSE SignedRoot(IF x * m.den > m.num THEN 1 ELSE IF x * m.den < m.num THEN -1 ELSE 0,
                    Lowest((x * m.den - m.num) * (x * m.den - m.num) * v.den,
                           m.den * m.den * v.num))

\* df['z_score'] = (df['raw_score'] - mu) / sigma
WithZ(t) ==
    [i \in DOMAIN t |->
        [gene |-> t[i].gene, raw_score |-> t[i].raw_score,
         z_score |-> ZScore(t[i].raw_score, Mean(t), Var(t))]]

\* Lines 80-88.  A table without rows has no column raw_score: KeyError.
Z_Stats ==
    /\ pc = "cal_stats"
    /\ IF full_df = <<>>
       THEN /\ pc' = "cal_error"
            /\ UNCHANGED <<full_df, mu, sigma>>
       ELSE /\ pc' = "cal_rank"
            /\ mu' = Mean(full_df)
            /\ sigma' = Var(full_df)
            /\ full_df' = WithZ(full_df)
    /\ UNCHANGED <<weighted_scores_file, universe_file, score_map, uni_genes, output_df,
                   notCal>>

\* the orders of the rows of t that sort_values('raw_score', ascending=False)
\* can give: its default sort (quicksort) is not stable, equal scores come
\* out in an order the call does not determine
DescendingOrders(t) ==
    {q \in CalOrders[Len(t)] :
        \A i, j \in DOMAIN t : i < j => t[q[i]].raw_score >= t[q[j]].raw_score}

\* df.index + 1 at the i-th row
RankOfIndex(i) == i

\* the table in the order q, with the columns rank and p_empirical
RankedBy(t, q) ==
    [i \in DOMAIN t |->
        [gene |-> t[q[i]].gene, raw_score |-> t[q[i]].raw_score,
         z_score |-> t[q[i]].z_score, rank |-> RankOfIndex(i),
         p_empirical |-> [num |-> RankOfIndex(i), den |-> Len(t)]]]

\* Lines 92-94.
Z_Rank ==
    /\ pc = "cal_rank"
    /\ \E q \in DescendingOrders(full_df) : full_df' = RankedBy(full_df, q)
    /\ pc' = "cal_output"
    /\ UNCHANGED <<weighted_scores_file, universe_file, score_map, uni_genes, mu, sigma,
                   output_df, notCal>>

\* df[df['raw_score'] > 0]
NonZeroScores(t) == SelectSeq(t, LAMBDA r : r.raw_score > 0)

\* Lines 98-103.
Z_Output ==
    /\ pc = "cal_output"
    /\ output_df' = NonZeroScores(full_df)
    /\ pc' = "cal_done"
    /\ UNCHANGED <<weighted_scores_file, universe_file, score_map, uni_genes, full_df,
                   mu, sigma, notCal>>

NextCal == Z_Load \/ Z_Merge \/ Z_Stats \/ Z_Rank \/ Z_Output

\* Inputs: a universe file of up to MaxUniverseRows rows with the genes A, B,
\* C or a missing value, and a scores file of up to MaxScoreRows rows with
\* the genes A and D at the scores 0.0, 1.0 and 10.0.
UniverseValues == {"A", "B", "C", NaGene}
ScoreGenes == {"A", "D"}
ScoreValues == {0, 1, 10}
ScoreRow(x) == [gene |-> x[1], weighted_score |-> x[2]]

InitCalRest ==
    /\ score_map = <<>>
    /\ uni_genes = {}
    /\ full_df = <<>>
    /\ mu = NoValue
    /\ sigma = NoValue
    /\ output_df = <<>>
    /\ pc = "cal_start"
    /\ IdleCS
    /\ IdleNorm
    /\ IdleAgg
    /\ IdleRun
    /\ IdleFix

InitCal ==
    /\ \E n \in 0..MaxUniverseRows :
         \E u \in [1..n -> UniverseValues] :
           universe_file = [exists |-> TRUE, col |-> TRUE, rows |-> u]
    /\ \E n \in 0..MaxScoreRows :
         \E f \in [1..n -> ScoreGenes \X ScoreValues] :
           weighted_scores_file = FileOf([i \in 1..n |-> ScoreRow(f[i])])
    /\ InitCalRest

SpecCal == InitCal /\ [][NextCal]_vars

\* Inputs where files may be missing: the scores file is there or not, the
\* universe file is there or not, with or without a gene column.
InitCalFiles ==
    /\ \E n \in 0..MaxUniverseRows :
         \E u \in [1..n -> UniverseValues] :
           \E e, c \in BOOLEAN :
             universe_file = [exists |-> e, col |-> e /\ c, rows |-> IF e THEN u ELSE <<>>]
    /\ \E n \in 0..MaxScoreRows :
         \E f \in [1..n -> ScoreGenes \X ScoreValues] :
           weighted_scores_file \in {NoFile, FileOf([i \in 1..n |-> ScoreRow(f[i])])}
    /\ InitCalRest

SpecCalFiles == InitCalFiles /\ [][NextCal]_vars

\* Inputs with equal scores: a universe file of up to MaxTieUniverse rows
\* with the genes A and B, and a scores file of up to MaxTieScores rows with
\* the genes A, B and D at the scores 1.0 and 10.0.
TieGenes == {"A", "B"}
TieScoreGenes == {"A", "B", "D"}
TieScoreValues == {1, 10}

InitTies ==
    /\ \E n \in 0..MaxTieUniverse :
         \E u \in [1..n -> TieGenes] :
           universe_file = [exists |-> TRUE, col |-> TRUE, rows |-> u]
    /\ \E n \in 0..MaxTieScores :
         \E f \in [1..n -> TieScoreGenes \X TieScoreValues] :
           weighted_scores_file = FileOf([i \in 1..n |-> ScoreRow(f[i])])
    /\ InitCalRest

SpecTies == InitTies /\ [][NextCal]_vars

(***************************************************************************)
(* run_alphagenome.py : score_variants_with_alphagenome                    *)
(*                                                                         *)
(* A run reads the checkpoint file, passes the variants whose SNP id it    *)
(* found there, calls the scoring service once for each other variant and  *)
(* appends the records to the checkpoint file in batches.  A line of the   *)
(* checkpoint file is its SNP id, its success flag, its error text and its *)
(* number of fields (`width`): every batch is written with the columns of  *)
(* its own records, and the header line is that of the first batch.        *)
(***************************************************************************)
\* the keys of a success record: SNP, target_gene, target_gene_score,
\* all_genes, success and the seven score_ columns
SuccessColumns == 12
\* the keys of a failure record: SNP, success, error
FailureColumns == 3

SuccessRecord(snp_id) == [SNP |-> snp_id, success |-> TRUE, error |-> ""]
FailureRecord(snp_id, e) == [SNP |-> snp_id, success |-> FALSE, error |-> e]

\* the number of columns of pd.DataFrame(batch): the union of the keys
Columns(batch) ==
    IF \A k \in DOMAIN batch : batch[k].success THEN SuccessColumns
    ELSE IF \A k \in DOMAIN batch : ~batch[k].success THEN FailureColumns
    ELSE SuccessColumns + 1

\* batch_df.to_csv(output_file, mode='a', header=hdr, index=False)
to_csv(file, batch) ==
    FileOf(file.rows \o [k \in DOMAIN batch |->
                           [SNP |-> batch[k].SNP, success |-> batch[k].success,
                            error |-> batch[k].error, width |-> Columns(batch)]])

\* pd.read_csv(output_file) returns a table: the file exists and no line has
\* more fields than the lines before it (shorter lines are padded).  The
\* header and the first line are of one batch, so of one width.
Readable(file) ==
    /\ file.exists
    /\ \A k \in DOMAIN file.rows : file.rows[k].width <= file.rows[1].width

\* set(existing['SNP'].astype(str))
SnpsOf(file) == {file.rows[k].SNP : k \in DOMAIN file.rows}

\* lines 29-60: the client, then the checkpoint file; an exception of the
\* read leaves seen_snps empty
R_Start ==
    /\ pc = "run_start"
    /\ \E created \in BOOLEAN :
         IF ~created
         THEN /\ pc' = "run_noclient"
              /\ UNCHANGED <<existing, seen_snps>>
         ELSE /\ existing' = output_file
              /\ seen_snps' = IF Readable(output_file) THEN SnpsOf(output_file) ELSE {}
              /\ pc' = "run_loop"
    /\ temp_results' = <<>>
    /\ run_i' = 0
    /\ calls' = [i \in DOMAIN variants |-> <<>>]
    /\ UNCHANGED <<variants, output_file, runs, notRun>>

\* str(e) of the exception of a failed call
ErrorText == "error"

\* lines 62-154: one iteration of the scoring loop
R_Variant ==
    /\ pc = "run_loop"
    /\ run_i < Len(variants)
    /\ LET snp_id == variants[run_i + 1] IN
         IF snp_id \in seen_snps
         THEN UNCHANGED <<temp_results, output_file, calls>>
         ELSE \E outcome \in {"ok", "raised"} :
                LET res == IF outcome = "ok" THEN SuccessRecord(snp_id)
                           ELSE FailureRecord(snp_id, ErrorText)
                    batch == Append(temp_results, res)
                IN /\ calls' = [calls EXCEPT ![run_i + 1] = Append(@, outcome)]
                   /\ IF Len(batch) >= BATCH_SIZE
                      THEN /\ output_file' = to_csv(output_file, batch)
                           /\ temp_results' = <<>>
                      ELSE /\ temp_results' = batch
                           /\ UNCHANGED output_file
    /\ run_i' = run_i + 1
    /\ UNCHANGED <<pc, variants, existing, seen_snps, runs, notRun>>

\* lines 156-163: the final save and the read of the whole checkpoint file
R_Finish ==
    /\ pc = "run_loop"
    /\ run_i = Len(variants)
    /\ \E saved \in {IF temp_results # <<>> THEN to_csv(output_file, temp_results)
                     ELSE output_file} :
         /\ output_file' = saved
         /\ pc' = IF ~saved.exists THEN "run_notfound"
                  ELSE IF ~Readable(saved) THEN "run_parsererror"
                  ELSE "run_done"
    /\ UNCHANGED <<variants, existing, seen_snps, temp_results, run_i, calls, runs, notRun>>

\* the script is started again after a run that was interrupted in the loop
\* or that ended with an exception
R_Restart ==
    /\ pc \in {"run_loop", "run_noclient", "run_notfound", "run_parsererror"}
    /\ runs < MaxRuns
    /\ runs' = runs + 1
    /\ pc' = "run_start"
    /\ UNCHANGED <<variants, output_file, existing, seen_snps, temp_results, run_i,
                   calls, notRun>>

NextRun == R_Start \/ R_Variant \/ R_Finish \/ R_Restart

\* Inputs: up to MaxRunVariants variants with SNP ids of RunSnps (an id may
\* repeat), no checkpoint file at the first start.
RunSnps == {"rs1", "rs2", "rs3"}

InitRun ==
    /\ \E n \in 0..MaxRunVariants : variants \in [1..n -> RunSnps]
    /\ output_file = NoFile
    /\ existing = NoFile
    /\ seen_snps = {}
    /\ temp_results = <<>>
    /\ run_i = 0
    /\ calls = <<>>
    /\ runs = 1
    /\ pc = "run_start"
    /\ IdleCS
    /\ IdleNorm
    /\ IdleAgg
    /\ IdleCal
    /\ IdleFix

SpecRun == InitRun /\ [][NextRun]_vars

(***************************************************************************)
(* fix_schema.py : normalize_row, main                                     *)
(*                                                                         *)
(* A line of a file is the list of its fields as csv.reader returns it; a  *)
(* field is the list of its pieces, so that the fields ",".join glues      *)
(* together are one field again: <<"a">> is the field a, <<>> the empty    *)
(* field, <<"a", ",", "b">> the field a,b.                                 *)
(***************************************************************************)
Field(x) == <<x>>
EmptyField == <<>>

CANONICAL_HEADER ==
    <<Field("SNP"), Field("target_gene"), Field("target_gene_score"),
      Field("all_genes"), Field("success"), Field("score_DNase"),
      Field("score_H3K27ac"), Field("score_H3K4me1"), Field("score_H3K4me3"),
      Field("score_CAGE"), Field("score_CTCF"), Field("score_RNA")>>

\* value.strip().lower() in {"true", "false", "1", "0"}
IsSuccessToken(value) ==
    value \in {Field("True"), Field("False"), Field("true"), Field("false"),
               Field("1"), Field("0")}

\* ",".join(fields)
RECURSIVE Join(_)
Join(fields) ==
    IF fields = <<>> THEN EmptyField
    ELSE IF Len(fields) = 1 THEN fields[1]
    ELSE fields[1] \o <<",">> \o Join(Tail(fields))

\* the success_idx of lines 55-63, counted from 0 as in the source: the last
\* place from 3 on that holds a success token, or 4
SuccessIdx(row) ==
    LET found == {i \in 3..(Len(row) - 1) : IsSuccessToken(row[i + 1])}
    IN IF found = {} THEN 4
       ELSE CHOOSE i \in found : \A j \in found : j <= i

\* lines 68-72: at most seven modalities, padded to seven
Modalities(row, idx) ==
    LET rest == SubSeq(row, idx + 2, Len(row))
    IN [k \in 1..7 |-> IF k <= Len(rest) THEN rest[k] ELSE EmptyField]

\* None
NoRow == <<>>

\* normalize_row(row)
normalize_row(row) ==
    IF row = <<>> THEN NoRow
    ELSE IF row[1] = Field("SNP") THEN NoRow
    ELSE IF Len(row) < 5 THEN NoRow
    ELSE LET idx == SuccessIdx(row)
             all_genes == IF idx > 3 THEN Join(SubSeq(row, 4, idx)) ELSE EmptyField
         IN <<row[1], row[2], row[3], all_genes, row[idx + 1]>> \o Modalities(row, idx)

\* Mutant: every row is kept, whether its SNP id was seen or not.
KeepAll(rows) == SelectSeq([k \in DOMAIN rows |-> normalize_row(rows[k])],
                           LAMBDA r : r # NoRow)

\* lines 105-116: the rows that can be normalised, the first one of every
\* SNP id
KeepFirst(rows) ==
    LET fixed == SelectSeq([k \in DOMAIN rows |-> normalize_row(rows[k])],
                           LAMBDA r : r # NoRow)
        first == {k \in DOMAIN fixed : \A j \in 1..(k - 1) : fixed[j][1] # fixed[k][1]}
        kept == SortedSeqOf(first)
    IN [k \in DOMAIN kept |-> fixed[kept[k]]]

\* lines 89-95: the file that is read, which is the backup file once the
\* input file was renamed
SourceFile(inf, bak) == IF bak.exists THEN bak ELSE inf

\* main, lines 85-126
F_Repair ==
    /\ pc = "fix_start"
    /\ IF ~in_file.exists /\ ~backup_file.exists
       THEN /\ pc' = "fix_nofile"
            /\ UNCHANGED <<in_file, backup_file, fix_first>>
       ELSE \E source \in {SourceFile(in_file, backup_file)} :
              \E written \in {FileOf(<<CANONICAL_HEADER>> \o KeepFirst(source.rows))} :
                 /\ backup_file' = source
                 /\ in_file' = written
                 /\ fix_first' = IF fix_first.exists THEN fix_first ELSE written
                 /\ pc' = "fix_done"
    /\ UNCHANGED <<fix_runs, notFix>>

\* the repair is started again
F_Again ==
    /\ pc \in {"fix_done", "fix_nofile", "fix_appended"}
    /\ fix_runs < MaxRepairs
    /\ fix_runs' = fix_runs + 1
    /\ pc' = "fix_start"
    /\ UNCHANGED <<in_file, backup_file, fix_first, notFix>>

\* the rows a file to repair is made of: a header line, a record of a
\* batch of successes (12 fields), of failures (3 fields), of both (13
\* fields, in either column order), a legacy record (5 fields), a record
\* whose last score reads as a success token, and an empty line
FixSnps == {"rs1", "rs2"}
SuccessRow(snp) ==
    <<Field(snp), Field("GENE1"), Field("0.5"), Field("GENE1:0.500"), Field("True"),
      Field("0.1"), Field("0.2"), Field("0.3"), Field("0.4"), Field("0.5"),
      Field("0.6"), Field("0.7")>>
FixRows ==
    {CANONICAL_HEADER, <<>>}
    \cup {SuccessRow(snp) : snp \in FixSnps}
    \cup {<<Field(snp), Field("False"), Field("timeout")>> : snp \in FixSnps}
    \cup {SuccessRow(snp) \o <<EmptyField>> : snp \in FixSnps}
    \cup {<<Field(snp), EmptyField, EmptyField, EmptyField, Field("False"),
            EmptyField, EmptyField, EmptyField, EmptyField, EmptyField, EmptyField,
            EmptyField, Field("timeout")>> : snp \in FixSnps}
    \cup {<<Field(snp), Field("True"), EmptyField, Field("GENE1"), Field("0.5"),
            Field("GENE1:0.500"), Field("0.1"), Field("0.2"), Field("0.3"),
            Field("0.4"), Field("0.5"), Field("0.6"), Field("0.7")>> : snp \in FixSnps}
    \cup {<<Field(snp), Field("GENE1"), Field("0.5"), Field("GENE1:0.500"),
            Field("True")>> : snp \in FixSnps}
    \cup {<<Field(snp), Field("GENE1"), Field("0.5"), Field("GENE1:0.500"),
            Field("GENE2:0.400"), Field("True"), Field("0.1"), Field("0")>> :
              snp \in FixSnps}

\* the scoring run appends a record to the repaired file (run_alphagenome.py,
\* lines 149-160)
F_Append ==
    /\ pc = "fix_done"
    /\ in_file = fix_first
    /\ \E snp \in FixSnps : in_file' = FileOf(in_file.rows \o <<SuccessRow(snp)>>)
    /\ pc' = "fix_appended"
    /\ UNCHANGED <<backup_file, fix_first, fix_runs, notFix>>

NextFix == F_Repair \/ F_Again \/ F_Append

\* Inputs: a file of up to MaxFixRows lines, or no file; no backup, or a
\* backup of at most one line that an earlier repair left.
InitFix ==
    /\ \E n \in 0..MaxFixRows :
         \E rows \in [1..n -> FixRows] : in_file \in {NoFile, FileOf(rows)}
    /\ \E n \in 0..1 :
         \E rows \in [1..n -> FixRows] : backup_file \in {NoFile, FileOf(rows)}
    /\ fix_first = NoFile
    /\ fix_runs = 1
    /\ pc = "fix_start"
    /\ IdleCS
    /\ IdleNorm
    /\ IdleAgg
    /\ IdleCal
    /\ IdleRun

SpecFix == InitFix /\ [][NextFix]_vars

(***************************************************************************)
(* Locus clustering.                                                       *)
(*                                                                         *)
(* While the loop runs and until the table is sorted again, `sig` is in    *)
(* the order of the clustering loop and locus_ids[i] is the locus of row i *)
(* for the rows the loop has passed.                                       *)
(***************************************************************************)
InClusterOrder == pc \in {"cs_loop", "cs_pp"}
ClusteringDone == pc = "cs_pp"

SortedByChrBp ==
    \A i, j \in DOMAIN sig :
        i < j => \/ sig[i].CHR < sig[j].CHR
                 \/ (sig[i].CHR = sig[j].CHR /\ sig[i].BP <= sig[j].BP)

\* row i opens a locus: it has an id no earlier row has
StartsLocus(i) == \A j \in 1..(i - 1) : locus_ids[j] # locus_ids[i]

\* C1: the variants are sorted by chromosome, then position, and a variant
\* starts a new locus iff it is the first one, or its chromosome differs from
\* the preceding variant's, or its position exceeds the preceding variant's
\* by more than 500,000 (a gap of exactly 500,000 does not split).
C1_NewLocusRule ==
    InClusterOrder =>
        /\ SortedByChrBp
        /\ \A i \in DOMAIN locus_ids :
              StartsLocus(i) <=>
                  \/ i = 1
                  \/ sig[i].CHR # sig[i - 1].CHR
                  \/ sig[i].BP - sig[i - 1].BP > 500000

\* a gap of exactly the window inside a locus, and a larger gap between loci
C1_Witness ==
    /\ ClusteringDone
    /\ \E i \in 2..Len(sig) :
          /\ sig[i].CHR = sig[i - 1].CHR
          /\ sig[i].BP - sig[i - 1].BP = 500000
          /\ locus_ids[i] = locus_ids[i - 1]
    /\ \E i \in 2..Len(sig) :
          /\ sig[i].CHR = sig[i - 1].CHR
          /\ sig[i].BP - sig[i - 1].BP > 500000
          /\ locus_ids[i] # locus_ids[i - 1]

\* rows i..j are one chromosome's run with every consecutive gap <= window
ChainedRun(i, j) ==
    \A k \in (i + 1)..j :
        /\ sig[k].CHR = sig[k - 1].CHR
        /\ sig[k].BP - sig[k - 1].BP <= Window

\* C2: a run of variants of one chromosome whose consecutive gaps are all
\* <= the window has a single locus id, however far apart its ends are.
C2_ChainTransitive ==
    InClusterOrder =>
        \A i, j \in DOMAIN locus_ids :
            (i <= j /\ ChainedRun(i, j)) => locus_ids[i] = locus_ids[j]

\* the spec's example: 0, 400,000 and 800,000 in one locus
C2_Witness ==
    /\ ClusteringDone
    /\ \E i \in 1..(Len(sig) - 2) :
          /\ ChainedRun(i, i + 2)
          /\ <<sig[i].BP, sig[i + 1].BP, sig[i + 2].BP>> = <<0, 400000, 800000>>
          /\ sig[i + 2].BP - sig[i].BP > Window
          /\ locus_ids[i] = locus_ids[i + 2]

\* C3: after clustering every significant input variant is in the table once,
\* with one locus id, no other row is, and a locus holds one chromosome only.
C3_OneLocusEach ==
    ClusteringDone =>
        /\ Len(locus_ids) = Len(sig)
        /\ \A r \in Range(df) :
              Cardinality({i \in DOMAIN sig : sig[i].SNP = r.SNP}) =
                  (IF r.P >= SigExp THEN 1 ELSE 0)
        /\ \A i \in DOMAIN sig :
              /\ sig[i].Locus_ID = locus_ids[i]
              /\ \E r \in Range(df) :
                    /\ r.SNP = sig[i].SNP /\ r.CHR = sig[i].CHR
                    /\ r.BP = sig[i].BP /\ r.P = sig[i].P
        /\ \A i, j \in DOMAIN sig :
              sig[i].Locus_ID = sig[j].Locus_ID => sig[i].CHR = sig[j].CHR

\* a variant was filtered out, and two chromosomes lie closer than the window
C3_Witness ==
    /\ ClusteringDone
    /\ Len(sig) < Len(df)
    /\ \E i \in 2..Len(sig) :
          /\ sig[i].CHR # sig[i - 1].CHR
          /\ sig[i].BP - sig[i - 1].BP \in 0..Window

\* C4: two variants of one chromosome in different loci have, among the
\* sorted variants from one to the other, two consecutive ones more than the
\* window apart.
C4_SeparatedLoci ==
    InClusterOrder =>
        \A i, j \in DOMAIN locus_ids :
            (i < j /\ sig[i].CHR = sig[j].CHR /\ locus_ids[i] # locus_ids[j])
                => \E k \in (i + 1)..j : sig[k].BP - sig[k - 1].BP > Window

\* two variants in different loci with a third between them
C4_Witness ==
    /\ ClusteringDone
    /\ \E i, j \in DOMAIN sig :
          /\ i + 2 <= j
          /\ sig[i].CHR = sig[j].CHR
          /\ locus_ids[i] # locus_ids[j]

(***************************************************************************)
(* Probability calibration and credible sets.                              *)
(***************************************************************************)
HasPP == pc \in {"cs_pp", "cs_done"} /\ sig # <<>>
Truncated == pc = "cs_done" /\ sig # <<>>

LocusIds == {sig[i].Locus_ID : i \in DOMAIN sig}
RowsOf(l) == {i \in DOMAIN sig : sig[i].Locus_ID = l}

RECURSIVE SumNum(_)
SumNum(I) ==
    IF I = {} THEN 0
    ELSE LET i == CHOOSE x \in I : TRUE
         IN sig[i].Proxy_PP.num + SumNum(I \ {i})

\* a probability > 0: a positive quotient, or a weight below 2^-54
ProbPositive(x) == x.den > 0 /\ (x.num > 0 \/ x.tiny > 0)
ProbEqual(x, y) == ~ProbLess(x, y) /\ ~ProbLess(y, x)

\* C5: the probabilities of every locus sum to 1.0, each is in (0, 1], and the
\* variant of a one-variant locus has probability 1.0.  (Probabilities are
\* exact quotients here; a weight below 2^-54 does not change a double sum.)
C5_LocusSumsToOne ==
    HasPP =>
        \A l \in LocusIds :
            /\ \A i, j \in RowsOf(l) : sig[i].Proxy_PP.den = sig[j].Proxy_PP.den
            /\ \A i \in RowsOf(l) :
                  /\ SumNum(RowsOf(l)) = sig[i].Proxy_PP.den
                  /\ ProbPositive(sig[i].Proxy_PP)
                  /\ sig[i].Proxy_PP.num <= sig[i].Proxy_PP.den
                  /\ Cardinality(RowsOf(l)) = 1 =>
                        sig[i].Proxy_PP.num = sig[i].Proxy_PP.den

\* a locus of one variant beside a locus of two variants with different
\* probabilities
C5_Witness ==
    /\ HasPP
    /\ \E l \in LocusIds : Cardinality(RowsOf(l)) = 1
    /\ \E l \in LocusIds : \E i, j \in RowsOf(l) :
          ProbLess(sig[i].Proxy_PP, sig[j].Proxy_PP)

\* the probability mass of the rows of row i's locus that precede row i
MassBefore(i) == SumNum({j \in RowsOf(sig[i].Locus_ID) : j < i})
\* ... and with row i
MassWith(i) == MassBefore(i) + sig[i].Proxy_PP.num
Reaches(num, i) == 100 * num >= MassPct * sig[i].Proxy_PP.den
Retained(i) == \E k \in DOMAIN credible_sets : credible_sets[k].SNP = sig[i].SNP

\* C6: with each locus ordered by descending probability, a variant is kept
\* iff the mass before it is < 0.95; the kept variants are the shortest
\* prefix whose mass reaches 0.95, exactly one of them crosses 0.95, and
\* without the last of them the mass is below 0.95.
C6_MinimalPrefix ==
    Truncated =>
        /\ \A i, j \in DOMAIN sig :
              (i < j /\ sig[i].Locus_ID = sig[j].Locus_ID) =>
                  ~ProbLess(sig[i].Proxy_PP, sig[j].Proxy_PP)
        /\ \A i \in DOMAIN sig : Retained(i) <=> ~Reaches(MassBefore(i), i)
        /\ \A l \in LocusIds :
              LET kept == {i \in RowsOf(l) : Retained(i)}
                  last == CHOOSE i \in kept : \A j \in kept : j <= i
              IN /\ kept # {}
                 /\ \A i \in RowsOf(l) : i <= last => i \in kept
                 /\ Reaches(MassWith(last), last)
                 /\ ~Reaches(MassBefore(last), last)
                 /\ Cardinality({i \in kept : Reaches(MassWith(i), i)}) = 1
        /\ Len(credible_sets) = Cardinality({i \in DOMAIN sig : Retained(i)})

\* a locus of three variants that keeps two: the second crosses 0.95
C6_Witness ==
    /\ Truncated
    /\ \E l \in LocusIds :
          /\ Cardinality(RowsOf(l)) = 3
          /\ Cardinality({i \in RowsOf(l) : Retained(i)}) = 2

\* the p-value the calibration takes the logarithm of
UsedP(p) == IF p = PZero THEN FloorExp ELSE p

\* C7, as claimed: within a locus a strictly smaller p-value has a strictly
\* larger probability, and equal p-values have equal probabilities.
C7_StrictInRawP ==
    HasPP =>
        \A i, j \in DOMAIN sig :
            sig[i].Locus_ID = sig[j].Locus_ID =>
                /\ PLess(sig[i].P, sig[j].P) =>
                      ProbLess(sig[j].Proxy_PP, sig[i].Proxy_PP)
                /\ sig[i].P = sig[j].P =>
                      ProbEqual(sig[i].Proxy_PP, sig[j].Proxy_PP)

\* C7, what the code does: the same with the p-value 0 counted as 1e-300, the
\* value it is replaced by.
C7_StrictInUsedP ==
    HasPP =>
        \A i, j \in DOMAIN sig :
            sig[i].Locus_ID = sig[j].Locus_ID =>
                /\ PLess(UsedP(sig[i].P), UsedP(sig[j].P)) =>
                      ProbLess(sig[j].Proxy_PP, sig[i].Proxy_PP)
                /\ UsedP(sig[i].P) = UsedP(sig[j].P) =>
                      ProbEqual(sig[i].Proxy_PP, sig[j].Proxy_PP)

\* 1e-9 beside 1e-8, and a p-value of 0 beside 1e-302, which outranks it
C7_Witness ==
    /\ HasPP
    /\ \E i, j \in DOMAIN sig :
          /\ sig[i].Locus_ID = sig[j].Locus_ID
          /\ sig[i].P = PZero /\ sig[j].P = FloorExp + 2
          /\ ProbLess(sig[i].Proxy_PP, sig[j].Proxy_PP)

(***************************************************************************)
(* Renormalisation of provided probabilities.                              *)
(***************************************************************************)
NormDone == pc = "norm_done"
NormRows(l) == {i \in DOMAIN norm_out : norm_out[i].Locus_ID = l}

RECURSIVE SumProvided(_)
SumProvided(I) ==
    IF I = {} THEN 0
    ELSE LET i == CHOOSE x \in I : TRUE
         IN norm_out[i].PP_original + SumProvided(I \ {i})

RECURSIVE SumOutNum(_)
SumOutNum(I) ==
    IF I = {} THEN 0
    ELSE LET i == CHOOSE x \in I : TRUE
         IN norm_out[i].PP.num + SumOutNum(I \ {i})

\* C8: every output probability is the provided one divided by the sum of the
\* provided ones of its locus; a locus with a positive sum, above 1.0 too,
\* sums to 1.0 afterwards, and the order of its variants is unchanged.
C8_LocusSumDivision ==
    NormDone =>
        /\ Len(norm_out) = Len(norm_df)
        /\ \A i \in DOMAIN norm_out :
              LET l == norm_out[i].Locus_ID
                  total == SumProvided(NormRows(l))
              IN total > 0 =>
                    /\ norm_out[i].PP.den > 0
                    /\ norm_out[i].PP.num * total
                          = norm_out[i].PP_original * norm_out[i].PP.den
                    /\ SumOutNum(NormRows(l)) = norm_out[i].PP.den
                    /\ \A j \in NormRows(l) :
                          (norm_out[i].PP_original < norm_out[j].PP_original)
                              <=> (norm_out[i].PP.num * norm_out[j].PP.den
                                      < norm_out[j].PP.num * norm_out[i].PP.den)

\* a locus whose provided probabilities sum to 5.0, with two different ones
C8_Witness ==
    /\ NormDone
    /\ \E l \in NormLoci :
          /\ SumProvided(NormRows(l)) >= 500
          /\ \E i, j \in NormRows(l) :
                norm_out[i].PP_original < norm_out[j].PP_original

(***************************************************************************)
(* Gene aggregation.                                                       *)
(***************************************************************************)
AggDone == pc = "agg_done"

\* the row names gene g as a target
Names(row, g) == DictHas(parse_gene_scores(row), g)
\* the row's effect for gene g
EffectFor(row, g) == DictGet(parse_gene_scores(row), g)

\* the sum of effect x probability over the rows 1..n of t that name g, added
\* up in the order of the rows
RECURSIVE SumOverRows(_, _, _)
SumOverRows(t, g, n) ==
    IF n = 0 THEN FZero
    ELSE IF Names(t[n], g)
         THEN FAdd(SumOverRows(t, g, n - 1), FMul(EffectFor(t[n], g), t[n].Proxy_PP))
         ELSE SumOverRows(t, g, n - 1)

NonZeroRows(t) == SelectSeq(t, LAMBDA r : r.Proxy_PP # FZero)

\* C9: the weighted_score of every gene of the result is the sum of
\* effect x probability over the rows that name the gene, and it is the same
\* sum with the rows of probability 0 left out (they contribute exactly 0.0).
C9_WeightedSum ==
    AggDone =>
      \A i \in DOMAIN res_df :
        /\ res_df[i].weighted_score = SumOverRows(agg_df, res_df[i].gene, Len(agg_df))
        /\ res_df[i].weighted_score =
             SumOverRows(NonZeroRows(agg_df), res_df[i].gene, Len(NonZeroRows(agg_df)))

\* A gene named by two rows of positive probability and by one of
\* probability 0.
C9_Witness ==
    /\ AggDone
    /\ \E i \in DOMAIN res_df :
         /\ FLess(FZero, res_df[i].weighted_score)
         /\ Cardinality({r \in DOMAIN agg_df : /\ Names(agg_df[r], res_df[i].gene)
                                               /\ agg_df[r].Proxy_PP # FZero}) >= 2
         /\ \E r \in DOMAIN agg_df : /\ Names(agg_df[r], res_df[i].gene)
                                     /\ agg_df[r].Proxy_PP = FZero

\* the permutations of the rows of a table of every length
RowOrders == [n \in 0..MaxAggRows |-> Perms(n)]
Reordered(t, q) == [i \in DOMAIN t |-> t[q[i]]]

\* the double after a > 0
FNextUp(a) ==
    IF a.lo + 1 < P27 THEN [a EXCEPT !.lo = a.lo + 1]
    ELSE IF a.hi + 1 < P26 THEN [a EXCEPT !.hi = a.hi + 1, !.lo = 0]
    ELSE [e |-> a.e + 1, hi |-> P25, lo |-> 0]

\* a <= b and b is at most k doubles after a
RECURSIVE UpTo(_, _, _)
UpTo(a, b, k) == a = b \/ (k > 0 /\ a.hi # 0 /\ FLess(a, b) /\ UpTo(FNextUp(a), b, k - 1))

\* a and b are at most k doubles apart
FWithin(a, b, k) == UpTo(a, b, k) \/ UpTo(b, a, k)

\* the rounding of a sum over the rows of t: two doubles for every addition
\* after the first
Rounding(t) == IF Len(t) = 0 THEN 0 ELSE 2 * (Len(t) - 1)

\* the result and the dicts st give the same genes the same max_score
SameGenesAndMax(st) ==
    /\ DictKeys(st.sums) = {res_df[i].gene : i \in DOMAIN res_df}
    /\ \A i \in DOMAIN res_df : DictGet(st.maxs, res_df[i].gene) = res_df[i].max_score

\* C10 as stated: for every permutation of the rows every gene gets the same
\* weighted_score and max_score as in the result.
C10_SameForEveryOrder ==
    AggDone =>
      \A q \in RowOrders[Len(agg_df)] :
        \E st \in {aggregate(Reordered(agg_df, q))} :
          /\ SameGenesAndMax(st)
          /\ \A i \in DOMAIN res_df :
               DictGet(st.sums, res_df[i].gene) = res_df[i].weighted_score

\* C10: for every permutation of the rows the genes and every max_score are
\* the same, every weighted_score is the same up to the rounding of the
\* floating-point sum, and the same order of the rows gives the same
\* weighted_score exactly.
C10_SameUpToRounding ==
    AggDone =>
      \A q \in RowOrders[Len(agg_df)] :
        \E st \in {aggregate(Reordered(agg_df, q))} :
          /\ SameGenesAndMax(st)
          /\ \A i \in DOMAIN res_df :
               /\ FWithin(DictGet(st.sums, res_df[i].gene), res_df[i].weighted_score,
                          Rounding(agg_df))
               /\ (\A r \in DOMAIN agg_df : q[r] = r)
                    => DictGet(st.sums, res_df[i].gene) = res_df[i].weighted_score

\* Three rows of which another order gives a gene another weighted_score.
C10_Witness ==
    /\ AggDone
    /\ Len(agg_df) = 3
    /\ \E q \in RowOrders[Len(agg_df)] :
         \E st \in {aggregate(Reordered(agg_df, q))} :
           \E i \in DOMAIN res_df :
             DictGet(st.sums, res_df[i].gene) # res_df[i].weighted_score

(***************************************************************************)
(* Gene records.                                                           *)
(***************************************************************************)
\* the rows of the loop that name gene g, and those of probability > 0
NamingRows(g) == {r \in DOMAIN agg_df : Names(agg_df[r], g)}
PositiveRows(g) == {r \in NamingRows(g) : FLess(FZero, agg_df[r].Proxy_PP)}

\* e is the largest effect for g among the rows R, which name g
IsMaxEffect(e, g, R) ==
    /\ \E r \in R : EffectFor(agg_df[r], g) = e
    /\ \A r \in R : ~FLess(e, EffectFor(agg_df[r], g))

\* C11, as claimed: every gene record is that of a gene named by a row of
\* probability > 0, and its max_score is the largest effect among the rows
\* of probability > 0 that name the gene.
C11_MaxOverPositive ==
    AggDone =>
      \A i \in DOMAIN res_df :
        /\ PositiveRows(res_df[i].gene) # {}
        /\ IsMaxEffect(res_df[i].max_score, res_df[i].gene, PositiveRows(res_df[i].gene))

\* C11, what the code does: every gene named by a row has a record, whatever
\* the probability, and max_score is the largest effect among all the rows
\* that name the gene, or 0.0 if that is larger.
C11_MaxOverAll ==
    AggDone =>
      /\ \A g \in {"G1", "G2"} :
           NamingRows(g) # {} <=> \E i \in DOMAIN res_df : res_df[i].gene = g
      /\ \A i \in DOMAIN res_df :
           \/ IsMaxEffect(res_df[i].max_score, res_df[i].gene, NamingRows(res_df[i].gene))
           \/ /\ res_df[i].max_score = FZero
              /\ \A r \in NamingRows(res_df[i].gene) :
                   ~FLess(FZero, EffectFor(agg_df[r], res_df[i].gene))

\* A gene whose largest effect comes from a row of probability 0.
C11_Witness ==
    /\ AggDone
    /\ \E i \in DOMAIN res_df :
         /\ PositiveRows(res_df[i].gene) # {}
         /\ \E r \in NamingRows(res_df[i].gene) \ PositiveRows(res_df[i].gene) :
              /\ EffectFor(agg_df[r], res_df[i].gene) = res_df[i].max_score
              /\ \A q \in PositiveRows(res_df[i].gene) :
                   FLess(EffectFor(agg_df[q], res_df[i].gene), res_df[i].max_score)

UniqueGenes == \A i, j \in DOMAIN res_df : res_df[i].gene = res_df[j].gene => i = j

\* C12, as claimed: the output has one row per gene, every row is that of a
\* gene with a nonzero contribution, and so a gene named only by rows of
\* probability 0 or only with effect 0 has no row.
C12_OnlyContributingGenes ==
    AggDone =>
      /\ UniqueGenes
      /\ \A i \in DOMAIN res_df :
           \E r \in PositiveRows(res_df[i].gene) :
             FLess(FZero, EffectFor(agg_df[r], res_df[i].gene))

\* C12, what the code does: one row per gene that any row names, whatever
\* the contribution; a row naming no gene adds none.
C12_OneRowPerNamedGene ==
    AggDone =>
      /\ UniqueGenes
      /\ \A g \in {"G1", "G2"} :
           NamingRows(g) # {} <=> \E i \in DOMAIN res_df : res_df[i].gene = g

\* An output with a row of a gene that only rows of probability 0 name,
\* from a table with a row naming no gene.
C12_Witness ==
    /\ AggDone
    /\ \E i \in DOMAIN res_df : PositiveRows(res_df[i].gene) = {}
    /\ \E r \in DOMAIN agg_df : parse_gene_scores(agg_df[r]) = <<>>

\* the table of the loop before fillna: the file, or the file merged with the
\* credible-set file
BeforeFill ==
    IF pp_column THEN scores_file ELSE Merged(scores_file, meta_file.rows)
WithProbability(t) == SelectSeq(t, LAMBDA r : r.Proxy_PP # FNaN)
AggEnded == pc \in {"agg_done", "agg_keyerror"}

CalDone == pc = "cal_done"
Ranked == pc \in {"cal_output", "cal_done"}

\* the genes of the universe file and of the scores file
UniverseGenes == GeneSet(universe_file.rows)
ScoredGenes == {weighted_scores_file.rows[i].gene : i \in DOMAIN weighted_scores_file.rows}
UnionGenes == UniverseGenes \cup ScoredGenes

\* the score of gene g: that of its last row in the scores file, 0.0 without one
ScoreOfGene(g) ==
    IF g \in ScoredGenes
    THEN weighted_scores_file.rows[CHOOSE i \in DOMAIN weighted_scores_file.rows :
             /\ weighted_scores_file.rows[i].gene = g
             /\ \A j \in DOMAIN weighted_scores_file.rows :
                  weighted_scores_file.rows[j].gene = g => j <= i].weighted_score
    ELSE 0

\* every gene of the union is exactly once in table t
EachGeneOnce(t) ==
    /\ {t[i].gene : i \in DOMAIN t} = UnionGenes
    /\ Len(t) = Cardinality(UnionGenes)

VarPopulation(t) ==
    [num |-> Len(t) * ScoreSumSq(t) - ScoreSum(t) * ScoreSum(t), den |-> Len(t) * Len(t)]

\* the variance of the scores is defined and not 0
Spread(v) == v # NoValue /\ v.num > 0

\* C14, as claimed: when the scores are not all equal, every z_score is
\* (score - mean) / std with the mean and the population standard deviation
\* of all the genes of the table, and is positive and finite for a gene that
\* alone has a score above 0.
C14_PopulationZ ==
    Ranked /\ Spread(VarPopulation(full_df)) =>
      \A i \in DOMAIN full_df :
        /\ full_df[i].z_score =
             ZScore(full_df[i].raw_score, Mean(full_df), VarPopulation(full_df))
        /\ (\A j \in DOMAIN full_df : (full_df[j].raw_score > 0) <=> j = i)
             => /\ ~full_df[i].z_score.nan
                /\ full_df[i].z_score.sgn = 1
                /\ full_df[i].z_score.den > 0

\* C14, what the code does: the same with the sample standard deviation
\* (divisor n - 1).
C14_SampleZ ==
    Ranked /\ Spread(VarPopulation(full_df)) =>
      \A i \in DOMAIN full_df :
        /\ ~full_df[i].z_score.nan
        /\ full_df[i].z_score.den > 0
        /\ full_df[i].z_score.sgn =
             (IF full_df[i].raw_score * Len(full_df) > ScoreSum(full_df) THEN 1
              ELSE IF full_df[i].raw_score * Len(full_df) < ScoreSum(full_df) THEN -1
              ELSE 0)
        /\ full_df[i].z_score.num * Len(full_df) * VarPopulation(full_df).num
             = full_df[i].z_score.den * (Len(full_df) - 1)
                 * (full_df[i].raw_score * Len(full_df) - ScoreSum(full_df))
                 * (full_df[i].raw_score * Len(full_df) - ScoreSum(full_df))

\* Three genes of which one alone has a score above 0.
C14_Witness ==
    /\ Ranked
    /\ Len(full_df) >= 3
    /\ \E i \in DOMAIN full_df :
         \A j \in DOMAIN full_df : (full_df[j].raw_score > 0) <=> j = i

SigmaZero == sigma # NoValue /\ sigma.num = 0
IsZeroZ(z) == ~z.nan /\ z.sgn = 0 /\ z.num = 0 /\ z.den > 0

\* C15, as claimed: when the standard deviation is 0 (all scores equal)
\* every z_score is 0.0, none is NaN or infinite.
C15_ZeroStdGivesZero ==
    Ranked /\ SigmaZero => \A i \in DOMAIN full_df : IsZeroZ(full_df[i].z_score)

\* C15, what the code does: when the standard deviation is 0 every z_score
\* is NaN.
C15_ZeroStdGivesNaN ==
    Ranked /\ SigmaZero => \A i \in DOMAIN full_df : full_df[i].z_score.nan

\* Three genes that all have the score 0.0.
C15_Witness ==
    /\ Ranked
    /\ Len(full_df) >= 3
    /\ SigmaZero
    /\ \A i \in DOMAIN full_df : full_df[i].raw_score = 0

\* the rank of gene g in table t
RankOfGene(t, g) == t[CHOOSE i \in DOMAIN t : t[i].gene = g].rank

\* C16, as claimed: the sort puts a gene of higher score before one of lower
\* score and keeps genes of equal score in their order before the sort;
\* rank is the 1-based position after the sort and the p-value rank / N.
C16_RankTiesByOriginalOrder ==
    [][pc = "cal_rank" =>
        /\ \A i, j \in DOMAIN full_df :
             \/ full_df[i].raw_score > full_df[j].raw_score
             \/ (full_df[i].raw_score = full_df[j].raw_score /\ i < j)
             => RankOfGene(full_df', full_df[i].gene) < RankOfGene(full_df', full_df[j].gene)
        /\ \A i \in DOMAIN full_df' :
             /\ full_df'[i].rank = i
             /\ full_df'[i].p_empirical = [num |-> i, den |-> Len(full_df')]
    ]_vars

\* C16, what the code does: rank is the 1-based position in the table sorted
\* by descending score, so the ranks are 1..N, a gene of strictly higher
\* score has a strictly smaller rank, and the p-value rank / N is in (0, 1].
C16_RankByDescendingScore ==
    Ranked =>
      /\ \A i \in DOMAIN full_df :
           /\ full_df[i].rank = i
           /\ full_df[i].p_empirical = [num |-> full_df[i].rank, den |-> Len(full_df)]
           /\ full_df[i].p_empirical.num > 0
           /\ full_df[i].p_empirical.num <= full_df[i].p_empirical.den
      /\ \A i, j \in DOMAIN full_df :
           full_df[i].raw_score > full_df[j].raw_score => full_df[i].rank < full_df[j].rank

\* Two genes of equal score and one of higher score, ranked.
C16_Witness ==
    /\ Ranked
    /\ \E i, j, k \in DOMAIN full_df :
         /\ i # j
         /\ full_df[i].raw_score = full_df[j].raw_score
         /\ full_df[k].raw_score > full_df[i].raw_score

(***************************************************************************)
(* The scoring run.                                                        *)
(*                                                                         *)
(* The records of the current run are the lines it appended to the         *)
(* checkpoint file followed, while the loop runs, by temp_results.  The    *)
(* attempted rows are the rows of variants_df for which the service was    *)
(* called.                                                                 *)
(***************************************************************************)
RunPast == pc \in {"run_loop", "run_notfound", "run_parsererror", "run_done"}
Plain(r) == [SNP |-> r.SNP, success |-> r.success, error |-> r.error]
Appended == SubSeq(output_file.rows, Len(existing.rows) + 1, Len(output_file.rows))
RunRecords ==
    [k \in DOMAIN Appended |-> Plain(Appended[k])]
        \o (IF pc = "run_loop" THEN temp_results ELSE <<>>)
Attempted == SortedSeqOf({i \in 1..run_i : calls[i] # <<>>})
HasFailure == \E k \in DOMAIN output_file.rows : ~output_file.rows[k].success

\* the records of the run are, in order, one for each attempted row: a
\* success record after a call that returned, a failure record with the
\* error text after a call that raised; every other row passed was skipped
\* as seen
OneRecordPerAttempt ==
    /\ Len(RunRecords) = Len(Attempted)
    /\ \A k \in DOMAIN RunRecords :
         /\ k \in DOMAIN Attempted
         /\ RunRecords[k] =
              IF calls[Attempted[k]] = <<"ok">>
              THEN SuccessRecord(variants[Attempted[k]])
              ELSE FailureRecord(variants[Attempted[k]], ErrorText)
    /\ \A i \in 1..run_i : calls[i] = <<>> => variants[i] \in seen_snps

\* C17, as claimed: an exception while scoring a variant is recorded as a
\* failure record of that variant and the loop goes on, every attempted
\* variant has exactly one record, and a recorded failure never makes the
\* run end with an exception.
C17_FailureNeverAborts ==
    RunPast => OneRecordPerAttempt /\ (HasFailure => pc # "run_parsererror")

\* C17, what the code does: within the loop every attempted variant gets
\* exactly one record, a failure record when its call raised, and the loop
\* goes on to the next variant.
C17_OneRecordPerAttempt == RunPast => OneRecordPerAttempt

\* a run that ended normally recorded a failure and, after it, a success
C17_Witness ==
    /\ pc = "run_done"
    /\ \E k, l \in DOMAIN RunRecords :
         k < l /\ ~RunRecords[k].success /\ RunRecords[l].success

WasCalled(i) == calls[i] # <<>>

\* C18, as claimed: a restarted run passes every variant whose SNP id is
\* recorded in the checkpoint file it found without calling the service,
\* and scores every other variant.
C18_SkipsWhatIsRecorded ==
    RunPast =>
        \A i \in 1..run_i : WasCalled(i) <=> variants[i] \notin SnpsOf(existing)

\* C18, what the code does: the run passes the variants of seen_snps and
\* scores every other one; seen_snps holds the SNP ids of the checkpoint
\* file when the file can be read and is empty when it cannot.
C18_SkipsWhatWasRead ==
    RunPast =>
        /\ \A i \in 1..run_i : WasCalled(i) <=> variants[i] \notin seen_snps
        /\ seen_snps = IF Readable(existing) THEN SnpsOf(existing) ELSE {}

\* a second run that ended normally passed a recorded variant and scored
\* another one
C18_Witness ==
    /\ pc = "run_done"
    /\ runs > 1
    /\ \E i, j \in 1..run_i :
         /\ ~WasCalled(i) /\ variants[i] \in SnpsOf(existing)
         /\ WasCalled(j) /\ variants[j] \notin SnpsOf(existing)

\* C19, as claimed: a failure is recorded only after the call was tried
\* again at least once.
C19_RetriedBeforeFailure ==
    RunPast /\ OneRecordPerAttempt =>
        \A k \in DOMAIN RunRecords :
            ~RunRecords[k].success => Len(calls[Attempted[k]]) > 1

\* C19, what the code does: the service is called at most once for a
\* variant, and a failure is recorded after the first call that raises.
C19_FailureAfterOneCall ==
    RunPast =>
        /\ \A i \in DOMAIN calls : Len(calls[i]) <= 1
        /\ OneRecordPerAttempt =>
             \A k \in DOMAIN RunRecords :
                 ~RunRecords[k].success => calls[Attempted[k]] = <<"raised">>

\* a failure record of the current run
C19_Witness ==
    /\ RunPast
    /\ \E k \in DOMAIN RunRecords : ~RunRecords[k].success

(***************************************************************************)
(* Failure of the null calibration.                                        *)
(***************************************************************************)
CalFailed == pc \in {"cal_error", "cal_none"}

\* C21: when the universe file is missing or has no gene column the
\* calibration ends with an error (or never leaves its start), no gene list
\* is built in its place and no calibrated table is produced.
C21_NoUniverseIsFatal ==
    ~universe_file.exists \/ ~universe_file.col =>
        /\ pc = "cal_start" \/ CalFailed
        /\ uni_genes = {}
        /\ full_df = <<>>
        /\ output_df = <<>>

\* the calibration failed on a universe file without a gene column, and on
\* a missing universe file, although the scores file was there
C21_Witness ==
    /\ pc = "cal_error"
    /\ weighted_scores_file.exists
    /\ weighted_scores_file.rows # <<>>
    /\ ~universe_file.exists \/ (universe_file.rows # <<>> /\ ~universe_file.col)

(***************************************************************************)
(* Degenerate probability mass.                                            *)
(***************************************************************************)
LocusSumOriginal(l) ==
    SumSeq([i \in DOMAIN norm_out |->
              IF norm_out[i].Locus_ID = l THEN norm_out[i].PP_original ELSE 0])

\* C22, as claimed: a locus without probability mass is reported as an
\* error of that locus, so no row of the written table carries a
\* probability that is not a number.
C22_DegenerateLocusRaises ==
    NormDone => \A i \in DOMAIN norm_out : norm_out[i].PP.den # 0

\* C22, what the code does: the rows of a locus whose probabilities sum to 0
\* are written with the probability NaN and only the table-wide warning is
\* printed; the rows of every other locus carry their own normalised
\* probability.
C22_DegenerateLocusIsNaN ==
    NormDone =>
        \A i \in DOMAIN norm_out :
            /\ norm_out[i].PP = [num |-> norm_out[i].PP_original,
                                 den |-> LocusSumOriginal(norm_out[i].Locus_ID)]
            /\ norm_out[i].PP.den = 0 => norm_warning

\* a written table with a locus of zero mass and a locus of positive mass
C22_Witness ==
    /\ NormDone
    /\ \E i, j \in DOMAIN norm_out :
         /\ LocusSumOriginal(norm_out[i].Locus_ID) = 0
         /\ norm_out[i].PP.den = 0
         /\ LocusSumOriginal(norm_out[j].Locus_ID) > 0
         /\ norm_out[j].PP.den > 0

(***************************************************************************)
(* Malformed and empty clustering input.                                   *)
(***************************************************************************)
LacksChrOrBp == ~{"CHR", "BP"} \subseteq df_columns
NothingProduced == locus_ids = <<>> /\ credible_sets = <<>> /\ proxy_file = NoFile

\* C23, as claimed: a table without the column CHR or BP is rejected by the
\* clustering with an error before a locus id is assigned and before any
\* output.
C23_MissingColumnRejected ==
    LacksChrOrBp => (pc \in {"cs_start", "cs_keyerror"} /\ NothingProduced)

\* C23, what the code does: with a significant variant the sort raises
\* KeyError before a locus id is assigned; without one the clustering
\* returns an empty table normally and only main fails; nothing is produced
\* either way.
C23_MissingColumnStops ==
    LacksChrOrBp =>
        /\ pc \in {"cs_start", "cs_keyerror", "cs_done", "cs_main_keyerror"}
        /\ pc \in {"cs_done", "cs_main_keyerror"} => sig = <<>>
        /\ NothingProduced

\* the sort failed on a table without the column BP
C23_Witness ==
    /\ pc = "cs_keyerror"
    /\ "CHR" \in df_columns
    /\ "BP" \notin df_columns
    /\ sig # <<>>

NoSignificant == \A i \in DOMAIN df : ~Significant(df[i].P)
OneSignificant == Cardinality({i \in DOMAIN df : Significant(df[i].P)}) = 1

\* what a table with exactly one significant variant yields: one locus that
\* holds this variant
OneLocusOfOne ==
    /\ Len(credible_sets) = 1
    /\ credible_sets[1].Locus_ID = 1
    /\ \E i \in DOMAIN df : Significant(df[i].P) /\ credible_sets[1].SNP = df[i].SNP

\* C25, as claimed: without a significant variant the stage yields an empty
\* result and no error; with exactly one it yields one locus of that one
\* variant.
C25_EmptyInputIsNoError ==
    /\ NoSignificant => pc \in {"cs_start", "cs_done", "cs_saved"}
    /\ NoSignificant /\ pc \in {"cs_done", "cs_saved"} => credible_sets = <<>>
    /\ OneSignificant /\ pc \in {"cs_done", "cs_saved"} => OneLocusOfOne

\* C25, what the code does: the clustering returns an empty table without a
\* significant variant, and main then fails on selecting its columns; one
\* significant variant gives one locus of that variant, which is saved.
C25_EmptyInputFailsInMain ==
    /\ NoSignificant => pc \in {"cs_start", "cs_done", "cs_main_keyerror"}
    /\ NoSignificant => NothingProduced
    /\ OneSignificant /\ pc \in {"cs_done", "cs_saved"} => OneLocusOfOne
    /\ OneSignificant /\ pc = "cs_saved" => proxy_file = FileOf(credible_sets)

\* the locus of a single significant variant was saved
C25_Witness ==
    /\ pc = "cs_saved"
    /\ OneSignificant
    /\ Len(df) > 1
    /\ OneLocusOfOne

(***************************************************************************)
(* Variants at one position.  SNP is the row number of the variant in the  *)
(* input table.                                                            *)
(***************************************************************************)
SamePosition(a, b) == a.CHR = b.CHR /\ a.BP = b.BP
Clustering == pc \in {"cs_loop", "cs_pp", "cs_done", "cs_saved"}

\* C26, as claimed: variants of one chromosome and position are in the
\* order of the input table, in the sequence the loop passes and in the
\* returned table.
C26_TiesInInputOrder ==
    Clustering =>
        /\ \A i, j \in DOMAIN sig :
             i < j /\ SamePosition(sig[i], sig[j]) => sig[i].SNP < sig[j].SNP
        /\ \A i, j \in DOMAIN credible_sets :
             i < j /\ SamePosition(credible_sets[i], credible_sets[j]) =>
                 credible_sets[i].SNP < credible_sets[j].SNP

\* C26, what the code does: variants of one chromosome and position are in
\* ascending order of p-value, and in the order of the input table only
\* among equal p-values.
C26_TiesByPValue ==
    Clustering =>
        /\ \A i, j \in DOMAIN sig :
             i < j /\ SamePosition(sig[i], sig[j]) =>
                 \/ PLess(sig[i].P, sig[j].P)
                 \/ (sig[i].P = sig[j].P /\ sig[i].SNP < sig[j].SNP)
        /\ \A i, j \in DOMAIN credible_sets :
             i < j /\ SamePosition(credible_sets[i], credible_sets[j]) =>
                 \/ PLess(credible_sets[i].P, credible_sets[j].P)
                 \/ (credible_sets[i].P = credible_sets[j].P
                        /\ credible_sets[i].SNP < credible_sets[j].SNP)

\* two variants of one position and different p-values, and two of one
\* position and one p-value, were passed by the loop
C26_Witness ==
    /\ pc = "cs_loop"
    /\ Len(locus_ids) = Len(sig)
    /\ \E i, j \in DOMAIN sig :
         i < j /\ SamePosition(sig[i], sig[j]) /\ sig[i].P # sig[j].P
    /\ \E i, j \in DOMAIN sig :
         i < j /\ SamePosition(sig[i], sig[j]) /\ sig[i].P = sig[j].P

(***************************************************************************)
(* Probabilities written back by row position.                             *)
(***************************************************************************)
\* the rows of the locus of row i, in table order, and the place of row i
\* among them
LocusOf(i) == SelectSeq(sig, LAMBDA r : r.Locus_ID = sig[i].Locus_ID)
PlaceInLocus(i) == Cardinality({j \in 1..i : sig[j].Locus_ID = sig[i].Locus_ID})

OutputsOf(t) == {NonZeroScores(RankedBy(t, r)) : r \in DescendingOrders(t)}
Outputs ==
    UNION {OutputsOf(WithZ(FullTable(q, score_map, uni_genes))) :
              q \in SetOrders(uni_genes)}

RowOfGene(t, g) == t[CHOOSE i \in DOMAIN t : t[i].gene = g]
GenesOf(t) == {t[i].gene : i \in DOMAIN t}
Untied(t, g) ==
    \A i \in DOMAIN t : t[i].gene # g => t[i].raw_score # RowOfGene(t, g).raw_score

\* C24, as claimed: the calibration is a function of its input: every run
\* on the input of this run returns the table this run returned, with the
\* same z_score, rank and empirical p-value for every gene, tied or not.
C24_SameOutputEveryRun ==
    CalDone => Outputs = {output_df}

\* C24, what the code does: every run on the same input returns the same
\* genes with the same score and z_score, and the same rank and empirical
\* p-value for the genes whose score no other gene has; genes of equal
\* score can change places from run to run.
C24_SameUpToTies ==
    CalDone =>
        \A o \in Outputs :
            /\ GenesOf(o) = GenesOf(output_df)
            /\ Len(o) = Len(output_df)
            /\ \A g \in GenesOf(o) :
                 /\ RowOfGene(o, g).raw_score = RowOfGene(output_df, g).raw_score
                 /\ RowOfGene(o, g).z_score = RowOfGene(output_df, g).z_score
                 /\ Untied(full_df, g) => RowOfGene(o, g) = RowOfGene(output_df, g)

\* a returned table with two universe genes of one positive score and a
\* gene of another score
C24_Witness ==
    /\ CalDone
    /\ \E i, j, k \in DOMAIN output_df :
         /\ i # j
         /\ output_df[i].raw_score = output_df[j].raw_score
         /\ {output_df[i].gene, output_df[j].gene} \subseteq uni_genes
         /\ output_df[k].raw_score # output_df[i].raw_score

(***************************************************************************)
(* Restarts of the scoring run.                                            *)
(***************************************************************************)
FailedBefore(snp_id) ==
    \E k \in DOMAIN existing.rows :
        existing.rows[k].SNP = snp_id /\ ~existing.rows[k].success

\* C28, as claimed: a variant that the checkpoint file records as a failure
\* is passed by every later run without a call of the service.
C28_FailedNeverRetried ==
    RunPast => \A i \in 1..run_i : FailedBefore(variants[i]) => ~WasCalled(i)

\* C28, what the code does: such a variant is passed by a later run that
\* could read the checkpoint file, and scored again by one that could not.
C28_FailedSkippedWhenRead ==
    RunPast =>
        \A i \in 1..run_i :
            FailedBefore(variants[i]) => (WasCalled(i) <=> ~Readable(existing))

\* a later run passed a variant recorded as a failure and ended normally
C28_Witness ==
    /\ pc = "run_done"
    /\ runs > 1
    /\ \E i \in 1..run_i : FailedBefore(variants[i]) /\ ~WasCalled(i)

UniqueInput == \A i, j \in DOMAIN variants : variants[i] = variants[j] => i = j
RecordsOf(snp_id) == {k \in DOMAIN output_file.rows : output_file.rows[k].SNP = snp_id}
ExactlyOnce ==
    /\ \A i \in DOMAIN variants : Cardinality(RecordsOf(variants[i])) = 1
    /\ SnpsOf(output_file) \subseteq Range(variants)

\* C29, as claimed: after interrupted runs and a run that went through its
\* loop and its final save, the checkpoint file of an input of unique SNP
\* ids holds exactly one record for every input SNP.
C29_ExactlyOneRecord ==
    UniqueInput /\ pc \in {"run_done", "run_parsererror"} => ExactlyOnce

\* C29, what the code does: the checkpoint file holds exactly one record
\* for every input SNP after a run that returned normally; a run that ends
\* with the ParserError of the final read can leave records twice.
C29_ExactlyOneWhenReturned ==
    UniqueInput /\ pc = "run_done" => ExactlyOnce

\* a run that returned normally after an interrupted run, each of which
\* wrote records
C29_Witness ==
    /\ pc = "run_done"
    /\ runs > 1
    /\ UniqueInput
    /\ existing.rows # <<>>
    /\ Appended # <<>>

(***************************************************************************)
(* Repeated schema repair                                                  *)
(***************************************************************************)
\* every line of the file has exactly 12 fields
TwelveColumns(file) == \A k \in DOMAIN file.rows : Len(file.rows[k]) = 12

\* no SNP id on two lines
NoSnpTwice(file) ==
    \A j, k \in DOMAIN file.rows : file.rows[j][1] = file.rows[k][1] => j = k

\* every record of the file is the first row of the source that can be
\* normalised and bears its SNP id
FirstOccurrences(file, source) ==
    \A k \in 2..Len(file.rows) :
       \E i \in DOMAIN source.rows :
          /\ normalize_row(source.rows[i]) = file.rows[k]
          /\ \A j \in 1..(i - 1) :
                \/ normalize_row(source.rows[j]) = NoRow
                \/ normalize_row(source.rows[j])[1] # file.rows[k][1]

\* the backup is made of the input file when there is none, and an
\* existing backup is left as it is
BackupKept ==
    /\ backup_file.exists => backup_file' = backup_file
    /\ ~backup_file.exists /\ backup_file'.exists => backup_file' = in_file

====
